---- MODULE Spec2Model ----
(***************************************************************************)
(* Metering interception layer for the Google AI and Vertex AI SDKs:       *)
(* the wrappers around the SDK entry points, the stream wrappers, the      *)
(* usage extraction they call and the background reporter.                 *)
(*                                                                         *)
(* Python values are encoded as follows.  A token count is an integer,     *)
(* NoneV when the attribute holds None and Absent when the object has no   *)
(* such attribute.  An optional object is a sequence: <<>> for None and    *)
(* <<x>> for the object x.  A string-valued attribute holds "None" when    *)
(* it is None.  An operation that may raise returns a record whose exc     *)
(* field is "none" or the name of the exception class.                     *)
(***************************************************************************)
EXTENDS Integers, Sequences, FiniteSets, TLC

VARIABLES
    entry,        \* the intercepted entry point of this logical call
    sdk,          \* what the original SDK method does when invoked
    phase,        \* "idle" before the call, "called" after the wrapper ran
    call_result,  \* what the wrapper handed to its caller
    w,            \* the stream wrapper object (<<>> when there is none)
    stream,       \* the SDK's generator behind the wrapper
    yielded,      \* chunks returned to the consumer by __next__, in order
    last,         \* outcome of the consumer's latest __next__/close call
    tasks,        \* coroutines handed to run_async_in_thread, in order
    shutdown,     \* revenium_middleware.shutdown_event
    backend_up,   \* whether the metering backend accepts a submission
    spawn_ok,     \* whether run_async_in_thread can start its thread
    nops,         \* consumer operations performed so far (logical clock)
    pcA,          \* race specification: position of the thread in close()
    pcB,          \* race specification: position of the thread in __next__
    regA,         \* race specification: locals of the close() thread
    regB,         \* race specification: locals of the __next__ thread
    instance,     \* the _revenium_usage_metadata attribute of the SDK object
    kwargs,       \* keyword arguments the caller passed to the entry point
    forwarded,    \* keyword arguments the original SDK method received
    captured,     \* the usage_metadata the wrapper hands to the reporter
    completion_args, \* arguments of the latest client.ai.create_completion
    installed,    \* which SDK modules and attributes the interpreter can find
    importing,    \* progress of `import revenium_middleware_google`
    probe,        \* a response and operation type handed to the extractors
    extracted,    \* what each extraction path made of the probe
    heap          \* two streamed calls at once: frames, wrapper objects, lists

\* what the caller supplies, and what the wrapper and the reporter make of it
metaIn == <<instance, kwargs>>
metaOut == <<forwarded, captured, completion_args>>
\* the SDK installation and the import of the package
pkgState == <<installed, importing>>
\* extraction applied on its own
extractState == <<probe, extracted>>

vars == <<entry, sdk, phase, call_result, w, stream, yielded, last, tasks,
          shutdown, backend_up, spawn_ok, nops, pcA, regA, pcB, regB, metaIn, metaOut, pkgState, extractState,
          heap>>

(***************************************************************************)
(* Bounds of the model.                                                    *)
(***************************************************************************)
MaxStream == 3      \* longest chunk script of the SDK generator
MaxOps == 6         \* consumer operations explored per wrapper
max_chunks == 2     \* self._max_chunks (1000 in the source), scaled down
MaxPresentPaths == 2 \* module paths of module_patterns an installation has

NoneV == 0 - 1      \* an attribute holding None
Absent == 0 - 2     \* a missing attribute

None == <<>>
Some(x) == <<x>>
IsNone(o) == o = <<>>
Val(o) == o[1]

(***************************************************************************)
(* Input domains: usage metadata objects, responses, chunks.               *)
(***************************************************************************)
UsageGood == [prompt_token_count |-> 10, candidates_token_count |-> 15,
              total_token_count |-> 25, cached_content_token_count |-> 0]
\* the SDKs leave candidates_token_count at None when nothing was generated
UsageNoneCount == [prompt_token_count |-> 10, candidates_token_count |-> NoneV,
                   total_token_count |-> 10, cached_content_token_count |-> NoneV]
UsageNoTotal == [prompt_token_count |-> 3, candidates_token_count |-> 4,
                 total_token_count |-> Absent, cached_content_token_count |-> Absent]

Usages == {UsageGood, UsageNoneCount, UsageNoTotal}

\* A response object.  is_none: the SDK returned None.  is_list: a list of
\* TextEmbedding objects whose first element has statistics.token_count.
MkResponse(isnone, islist, mv, mn, um, fr, stat) ==
    [is_none |-> isnone, is_list |-> islist, model_version |-> mv,
     model_name |-> mn, usage_metadata |-> um, finish_reason |-> fr,
     token_count |-> stat,
     \* what candidates[0].finish_reason is: None, a str, an enum member
     \* ("enum": it has .name and is not a str), another hashable object or
     \* an unhashable one; finish_reason is its text
     finish_kind |-> IF fr = "None" THEN "None" ELSE "str",
     \* _raw_response.model_version, "None" without a _raw_response
     raw_model_version |-> "None"]

RespChatGood == MkResponse(FALSE, FALSE, "gemini-x", "None", Some(UsageGood), "STOP", Absent)
RespChatNoneCount == MkResponse(FALSE, FALSE, "gemini-x", "None", Some(UsageNoneCount), "SAFETY", Absent)
RespChatNoUsage == MkResponse(FALSE, FALSE, "None", "None", None, "None", Absent)
RespEmbedList == MkResponse(FALSE, TRUE, "None", "None", None, "None", 5)
RespNone == MkResponse(TRUE, FALSE, "None", "None", None, "None", Absent)
\* a Vertex AI response whose _raw_response names the model
RespChatRaw == [RespChatGood EXCEPT !.raw_model_version = "gemini-raw"]
\* responses whose finish reason is not a string
RespChatListFinish == [RespChatGood EXCEPT !.finish_kind = "unhashable", !.finish_reason = "[]"]
RespChatEnumFinish == [RespChatGood EXCEPT !.finish_kind = "enum", !.finish_reason = "MAX_TOKENS"]

Responses == {RespChatGood, RespChatNoneCount, RespChatNoUsage, RespEmbedList, RespNone}

\* A streamed chunk; id is its position in the generator's script.
MkChunk(i, kind) ==
    [id |-> i,
     model_version |-> IF kind = "plain" THEN "None" ELSE "gemini-x",
     finish_reason |-> IF kind = "plain" THEN "None" ELSE "STOP",
     usage_metadata |-> CASE kind = "plain" -> None
                          [] kind = "final" -> Some(UsageGood)
                          [] OTHER -> Some(UsageNoneCount)]

ChunkKinds == {"plain", "final", "final_none_count"}

(***************************************************************************)
(* Caller metadata: the usage_metadata dictionary.  A value is a string;   *)
(* Missing says that the dictionary has no such key.  The nested           *)
(* subscriber entry is missing, a dictionary, or some other object.        *)
(***************************************************************************)
Missing == "Missing"

\* a subscriber dictionary {id, email, credential: {name, value}}
MkSubscriber(id, email, has_credential, name, value) ==
    [id |-> id, email |-> email, has_credential |-> has_credential,
     cred_name |-> name, cred_value |-> value]

EmptyDict == MkSubscriber(Missing, Missing, FALSE, Missing, Missing)

MkMeta(trace_id, kind, subscriber, sid, semail, scname, scvalue) ==
    [trace_id |-> trace_id,
     subscriber_kind |-> kind,           \* "missing", "dict" or "other"
     subscriber |-> subscriber,
     subscriber_id |-> sid,
     subscriber_email |-> semail,
     subscriber_credential_name |-> scname,
     subscriber_credential |-> scvalue]

\* the dictionary {}
EmptyMeta == MkMeta(Missing, "missing", EmptyDict, Missing, Missing, Missing, Missing)

\* {"trace_id": t}
TraceMeta(t) == [EmptyMeta EXCEPT !.trace_id = t]

\* truth value of a dictionary value fetched with .get()
TruthyValue(v) == v # Missing /\ v # ""

(***************************************************************************)
(* The first statements of the wrappers: taking usage_metadata out of the  *)
(* call.  Each returns the captured metadata and the keyword arguments     *)
(* that go on to the original method.                                      *)
(***************************************************************************)
\* google_ai: usage_metadata = kwargs.pop("usage_metadata", {})
pop_usage_metadata(kw) ==
    [usage_metadata |-> IF IsNone(kw.usage_metadata) THEN EmptyMeta
                        ELSE Val(kw.usage_metadata),
     kwargs |-> [kw EXCEPT !.usage_metadata = None]]

\* vertex_ai: usage_metadata = getattr(instance, "_revenium_usage_metadata", {})
\*                             or kwargs.pop("usage_metadata", {})
instance_or_pop_usage_metadata(inst, kw) ==
    IF ~IsNone(inst) /\ Val(inst) # EmptyMeta
    THEN [usage_metadata |-> Val(inst), kwargs |-> kw]
    ELSE pop_usage_metadata(kw)

capture_usage_metadata(e, inst, kw) ==
    IF e \in {"google_ai.generate_content", "google_ai.embed_content",
              "google_ai.generate_content_stream"}
    THEN pop_usage_metadata(kw)
    ELSE instance_or_pop_usage_metadata(inst, kw)

(***************************************************************************)
(* log_token_usage: the part of the create_completion arguments that comes *)
(* from the caller's metadata.                                             *)
(***************************************************************************)
\* variant: subscriber_data is added to the arguments whatever it holds
AnyDict(d) == TRUE

\* bool(d) of a subscriber dictionary: it has at least one key
NonEmptyDict(d) == d.id # Missing \/ d.email # Missing \/ d.has_credential

\* variant: the flat credential keys are not folded into the subscriber
subscriber_from_flat_keys_without_credential(um) ==
    MkSubscriber(IF TruthyValue(um.subscriber_id) THEN um.subscriber_id ELSE Missing,
                 IF TruthyValue(um.subscriber_email) THEN um.subscriber_email ELSE Missing,
                 FALSE, Missing, Missing)

\* the else branch: subscriber_data built from the flat keys, each added
\* only when its value is truthy; credential only when it has a field
subscriber_from_flat_keys(um) ==
    MkSubscriber(IF TruthyValue(um.subscriber_id) THEN um.subscriber_id ELSE Missing,
                 IF TruthyValue(um.subscriber_email) THEN um.subscriber_email ELSE Missing,
                 TruthyValue(um.subscriber_credential_name)
                    \/ TruthyValue(um.subscriber_credential),
                 IF TruthyValue(um.subscriber_credential_name)
                    THEN um.subscriber_credential_name ELSE Missing,
                 IF TruthyValue(um.subscriber_credential)
                    THEN um.subscriber_credential ELSE Missing)

\* flat_keys_used, in the order the code appends them
flat_keys_used(um) ==
    (IF TruthyValue(um.subscriber_id) THEN <<"subscriber_id">> ELSE <<>>)
    \o (IF TruthyValue(um.subscriber_email) THEN <<"subscriber_email">> ELSE <<>>)
    \o (IF TruthyValue(um.subscriber_credential_name)
          THEN <<"subscriber_credential_name">> ELSE <<>>)
    \o (IF TruthyValue(um.subscriber_credential)
          THEN <<"subscriber_credential">> ELSE <<>>)

\* variant: flat keys fill in what the nested subscriber leaves out
subscriber_data_merged(um) ==
    IF um.subscriber_kind = "dict"
    THEN [um.subscriber EXCEPT
            !.id = IF @ = Missing THEN subscriber_from_flat_keys(um).id ELSE @,
            !.email = IF @ = Missing THEN subscriber_from_flat_keys(um).email ELSE @]
    ELSE subscriber_from_flat_keys(um)

\* subscriber_data after the if "subscriber" in usage_metadata / else
subscriber_data(um) ==
    IF um.subscriber_kind # "missing"
    THEN IF um.subscriber_kind = "dict" THEN um.subscriber ELSE EmptyDict
    ELSE subscriber_from_flat_keys(um)

\* the arguments of create_completion that depend on usage_metadata, and
\* whether the deprecation warning was logged
log_token_usage_args(um) ==
    [trace_id |-> IF TruthyValue(um.trace_id) THEN um.trace_id ELSE Missing,
     has_subscriber |-> NonEmptyDict(subscriber_data(um)),
     subscriber |-> subscriber_data(um),
     deprecation_warning |-> um.subscriber_kind = "missing"
                             /\ flat_keys_used(um) # <<>>]

(***************************************************************************)
(* Import of the package: __init__.py imports each vendor SDK and then the *)
(* middleware module for it, whose decorators patch the entry points.      *)
(***************************************************************************)
\* the module paths _apply_generate_content_wrappers tries, in its order
module_patterns ==
    <<"vertexai.generative_models", "vertexai.preview.generative_models",
      "vertexai.v1.generative_models", "vertexai.v1beta1.generative_models",
      "vertexai.v2.generative_models", "vertexai.beta.generative_models",
      "vertexai.alpha.generative_models">>

GoogleTargets == <<"Models.generate_content", "Models.embed_content",
                   "Models.generate_content_stream">>

\* wrapt.patch_function_wrapper(module, name) applied to a wrapper: it imports
\* the module and looks the attribute path up
patch_function_wrapper(module_found, attribute_found) ==
    IF ~module_found THEN "ImportError"
    ELSE IF ~attribute_found THEN "AttributeError"
    ELSE "none"

\* executing google_ai/middleware.py: the three decorators in order, the
\* first exception ends the execution
RECURSIVE google_ai_decorators(_, _, _)
google_ai_decorators(inst, i, done) ==
    IF i > Len(GoogleTargets) THEN [exc |-> "none", patched |-> done]
    ELSE LET after(e) ==
                 IF e # "none" THEN [exc |-> e, patched |-> done]
                 ELSE google_ai_decorators(inst, i + 1, done \cup {GoogleTargets[i]})
         IN  after(patch_function_wrapper(inst.google_models,
                                          GoogleTargets[i] \in inst.models_attrs))

\* _apply_generate_content_wrappers: modules that import and hold
\* GenerativeModel.generate_content are patched, the others are skipped
_apply_generate_content_wrappers(inst) ==
    {module_patterns[i] : i \in {j \in 1..Len(module_patterns) :
                                    inst.generative[module_patterns[j]] = "ok"}}

\* executing vertex_ai/middleware.py: the get_embeddings decorator, then the
\* dynamic wrappers
import_vertex_ai_middleware(inst) ==
    LET after(e) ==
            IF e # "none" THEN [exc |-> e, patched |-> {}]
            ELSE [exc |-> "none",
                  patched |-> {"TextEmbeddingModel.get_embeddings"}
                              \cup _apply_generate_content_wrappers(inst)]
    IN  after(patch_function_wrapper(inst.language_models, inst.get_embeddings))

\* try: import <sdk>; from .<vendor> import middleware / except ImportError
import_block(imp, sdk_found, r, next_pc) ==
    IF ~sdk_found THEN [imp EXCEPT !.pc = next_pc]
    ELSE IF r.exc \in {"none", "ImportError"}
         THEN [imp EXCEPT !.pc = next_pc, !.patched = @ \cup r.patched]
         ELSE [imp EXCEPT !.pc = "failed", !.exc = r.exc, !.patched = @ \cup r.patched]

(***************************************************************************)
(* Python primitives used by the extraction code.                          *)
(***************************************************************************)
\* getattr(obj, name, default) on an attribute value
PyGetattr(v, default) == IF v = Absent THEN default ELSE v

\* a + b raises TypeError when an operand is None
PyAddRaises(a, b) == a = NoneV \/ b = NoneV

\* truth value of a string-valued attribute
TruthyStr(s) == s # "None" /\ s # ""

ZeroCounts == [input_tokens |-> 0, output_tokens |-> 0, total_tokens |-> 0,
               cached_tokens |-> 0]

\* Outcome of a Python call: exc is the class of the exception that leaves
\* the call ("none" when it returns), cause the class of the exception at
\* the root of its "raise ... from" chain, value the returned object.
Raised(e) == [exc |-> e, cause |-> e, value |-> None]
Returned(v) == [exc |-> "none", cause |-> "none", value |-> Some(v)]
ReturnedNone == [exc |-> "none", cause |-> "none", value |-> None]
RaisedFrom(e, r) == [exc |-> e, cause |-> r.cause, value |-> r.value]

\* MeteringError as raised by log_token_usage when create_completion fails
BackendFailure == "MeteringError(Failed to send metering data)"

(***************************************************************************)
(* common/types.py                                                         *)
(***************************************************************************)
GOOGLE_AI_STOP_REASONS ==
    "STOP" :> "END" @@ "MAX_TOKENS" :> "TOKEN_LIMIT" @@ "SAFETY" :> "ERROR" @@
    "RECITATION" :> "ERROR" @@ "OTHER" :> "END" @@ "None" :> "END"

VERTEX_AI_STOP_REASONS ==
    "STOP" :> "END" @@ "MAX_TOKENS" :> "TOKEN_LIMIT" @@ "SAFETY" :> "ERROR" @@
    "RECITATION" :> "ERROR" @@ "FINISH_REASON_UNSPECIFIED" :> "END" @@ "None" :> "END"

normalize_stop_reason(finish_reason, sdk_type) ==
    IF sdk_type = "google_ai_sdk"
    THEN IF finish_reason \in DOMAIN GOOGLE_AI_STOP_REASONS
         THEN GOOGLE_AI_STOP_REASONS[finish_reason] ELSE "END"
    ELSE IF sdk_type = "vertex_ai_sdk"
    THEN IF finish_reason \in DOMAIN VERTEX_AI_STOP_REASONS
         THEN VERTEX_AI_STOP_REASONS[finish_reason] ELSE "END"
    ELSE "END"

\* A finish reason of any type: a string, None, a hashable object that is
\* not a string (an int, an enum member), or an unhashable one (a list).
FinishValue(kind, text) == [kind |-> kind, text |-> text]

\* normalize_stop_reason on a finish reason of any type: dict.get hashes its
\* key, which raises TypeError for an unhashable one; a key that is not a
\* string equals no key of the tables
normalize_stop_reason_any(finish_reason, sdk_type) ==
    IF finish_reason.kind = "unhashable" /\ sdk_type \in {"google_ai_sdk", "vertex_ai_sdk"}
    THEN Raised("TypeError")
    ELSE Returned(normalize_stop_reason(
             IF finish_reason.kind = "str" THEN finish_reason.text
             ELSE IF finish_reason.kind = "None" THEN "None"
             ELSE "<not a string>", sdk_type))

\* UsageData.create: the fields of the record the reporter needs
UsageData_create(operation_type, counts, model, stop_reason) ==
    [operation_type |-> operation_type,
     input_token_count |-> counts.input_tokens,
     output_token_count |-> counts.output_tokens,
     total_token_count |-> counts.total_tokens,
     cache_creation_token_count |-> counts.cached_tokens,
     model |-> model,
     stop_reason |-> stop_reason,
     provider |-> "Google",
     is_streamed |-> FALSE,
     time_to_first_token |-> 0]

(***************************************************************************)
(* common/utils.py: extract_model_name                                     *)
(***************************************************************************)
extract_model_name(response, fallback) ==
    IF response.is_none
    THEN IF TruthyStr(fallback) THEN Returned(fallback)
         ELSE Raised("APIResponseError")
    ELSE IF TruthyStr(response.model_name) THEN Returned(response.model_name)
    ELSE IF TruthyStr(response.model_version) THEN Returned(response.model_version)
    ELSE IF TruthyStr(fallback) THEN Returned(fallback)
    ELSE Returned("unknown-model")

(***************************************************************************)
(* Token extraction shared by extract_google_ai_usage_data (CHAT branch)   *)
(* and extract_vertex_ai_generation_tokens: the two bodies are the same    *)
(* statements.  The default of the third getattr is evaluated before the   *)
(* call, so a None count raises TypeError.                                 *)
(***************************************************************************)
chat_token_counts(response) ==
    IF response.is_none \/ IsNone(response.usage_metadata)
    THEN Returned(ZeroCounts)
    ELSE LET um == Val(response.usage_metadata)
             input == PyGetattr(um.prompt_token_count, 0)
             output == PyGetattr(um.candidates_token_count, 0)
         IN  IF PyAddRaises(input, output) THEN Raised("TypeError")
             ELSE Returned([input_tokens |-> input,
                            output_tokens |-> output,
                            total_tokens |-> PyGetattr(um.total_token_count, input + output),
                            cached_tokens |-> PyGetattr(um.cached_content_token_count, 0)])

extract_vertex_ai_generation_tokens(response) == chat_token_counts(response)

\* finish reason of response.candidates[0], None without candidates
candidate_finish_reason(response) ==
    IF response.is_none \/ response.finish_kind = "None" THEN FinishValue("None", "")
    ELSE FinishValue(response.finish_kind, response.finish_reason)

(***************************************************************************)
(* common/utils.py: extract_token_counts, with has_token_counts and        *)
(* get_token_count of common/protocols.py                                  *)
(***************************************************************************)
\* any(hasattr(usage, a) and getattr(usage, a, 0) > 0 for a in token_attrs):
\* the attributes in the order total, prompt, candidates; None > 0 raises
has_token_counts(usage) ==
    LET step(v, rest) == IF v = Absent THEN rest
                         ELSE IF v = NoneV THEN "TypeError"
                         ELSE IF v > 0 THEN "True" ELSE rest
    IN  step(usage.total_token_count,
             step(usage.prompt_token_count,
                  step(usage.candidates_token_count, "False")))

\* the first positive int among the attributes, else 0
get_token_count(v) == IF v # Absent /\ v # NoneV /\ v > 0 THEN v ELSE 0

\* variant: the operation type does not touch the output count
extract_token_counts_keeping_output(response, operation_type) ==
    IF response.is_none THEN Returned(ZeroCounts)
    ELSE LET finish(input, out, total, cached) ==
                 Returned([input_tokens |-> input,
                           output_tokens |-> out,
                           total_tokens |-> IF total = 0 /\ (input > 0 \/ out > 0)
                                            THEN input + out ELSE total,
                           cached_tokens |-> cached])
             read(usage, has) ==
                 IF has = "TypeError"
                 THEN [exc |-> "TokenExtractionError", cause |-> "TypeError", value |-> None]
                 ELSE IF has = "False" THEN finish(0, 0, 0, 0)
                 ELSE finish(get_token_count(usage.prompt_token_count),
                             get_token_count(usage.candidates_token_count),
                             get_token_count(usage.total_token_count),
                             get_token_count(usage.cached_content_token_count))
         IN  IF IsNone(response.usage_metadata) THEN finish(0, 0, 0, 0)
             ELSE read(Val(response.usage_metadata),
                       has_token_counts(Val(response.usage_metadata)))

extract_token_counts(response, operation_type) ==
    IF response.is_none THEN Returned(ZeroCounts)
    ELSE LET \* the statements after the counts are read: EMBED, then the total
             finish(input, out, total, cached) ==
                 Returned([input_tokens |-> input,
                           output_tokens |-> out,
                           total_tokens |-> IF total = 0 /\ (input > 0 \/ out > 0)
                                            THEN input + out ELSE total,
                           cached_tokens |-> cached])
             embed(out) == IF operation_type = "EMBED" THEN 0 ELSE out
             read(usage, has) ==
                 IF has = "TypeError"
                 THEN [exc |-> "TokenExtractionError", cause |-> "TypeError", value |-> None]
                 ELSE IF has = "False" THEN finish(0, 0, 0, 0)
                 ELSE finish(get_token_count(usage.prompt_token_count),
                             embed(get_token_count(usage.candidates_token_count)),
                             get_token_count(usage.total_token_count),
                             get_token_count(usage.cached_content_token_count))
         IN  IF IsNone(response.usage_metadata) THEN finish(0, 0, 0, 0)
             ELSE read(Val(response.usage_metadata),
                       has_token_counts(Val(response.usage_metadata)))

(***************************************************************************)
(* google_ai/middleware.py: extract_google_ai_usage_data                   *)
(***************************************************************************)
extract_google_ai_usage_data(response, operation_type, model_name_fallback) ==
    LET build(name, counts) ==
            IF name.exc # "none" THEN Raised(name.exc)
            ELSE IF operation_type = "EMBED"
            THEN Returned(UsageData_create("EMBED", ZeroCounts, Val(name.value), "END"))
            ELSE IF counts.exc # "none" THEN Raised(counts.exc)
            ELSE LET stopped(stop_reason) ==
                         IF stop_reason.exc # "none" THEN Raised(stop_reason.exc)
                         ELSE Returned(UsageData_create("CHAT", Val(counts.value),
                                                        Val(name.value), Val(stop_reason.value)))
                 IN  stopped(normalize_stop_reason_any(candidate_finish_reason(response),
                                                       "google_ai_sdk"))
    IN  build(extract_model_name(response, model_name_fallback), chat_token_counts(response))

(***************************************************************************)
(* vertex_ai/middleware.py: the model-name cleanup of                      *)
(* extract_vertex_ai_usage_data.  A name is the sequence of its segments,  *)
(* the parts between the "/" characters: "models/gemini-x" is              *)
(* <<"models", "gemini-x">>.  A prefix ends with "/", so a name starts     *)
(* with it when the segments of the prefix are followed by a further       *)
(* segment.                                                                *)
(***************************************************************************)
prefixes_to_remove ==
    << <<"publishers", "google", "models">>, <<"models">>, <<"google", "models">>,
       <<"projects">> >>

startswith(name, prefix) ==
    /\ Len(name) > Len(prefix)
    /\ SubSeq(name, 1, Len(prefix)) = prefix

\* for prefix in prefixes_to_remove: if startswith: strip; break
RECURSIVE remove_first_prefix(_, _)
remove_first_prefix(name, i) ==
    IF i > Len(prefixes_to_remove) THEN name
    ELSE IF startswith(name, prefixes_to_remove[i])
    THEN SubSeq(name, Len(prefixes_to_remove[i]) + 1, Len(name))
    ELSE remove_first_prefix(name, i + 1)

clean_model_name(name) == remove_first_prefix(name, 1)

\* The model names that contain "/" and their segments; every other name
\* of the model is one segment.
PathNames ==
    "models/gemini-x" :> <<"models", "gemini-x">> @@
    "publishers/google/models/gemini-x" :> <<"publishers", "google", "models", "gemini-x">> @@
    "google/models/gemini-x" :> <<"google", "models", "gemini-x">> @@
    "projects/p/locations/l/models/gemini-x" :>
        <<"projects", "p", "locations", "l", "models", "gemini-x">> @@
    "p/locations/l/models/gemini-x" :> <<"p", "locations", "l", "models", "gemini-x">> @@
    "models/models/gemini-x" :> <<"models", "models", "gemini-x">>

split(name) == IF name \in DOMAIN PathNames THEN PathNames[name] ELSE <<name>>

join(segments) ==
    IF Len(segments) = 1 THEN segments[1]
    ELSE CHOOSE n \in DOMAIN PathNames : PathNames[n] = segments

\* if name and isinstance(name, str): for prefix in prefixes_to_remove: ...
remove_path_prefix(name) ==
    IF TruthyStr(name) THEN join(clean_model_name(split(name))) ELSE name

(***************************************************************************)
(* vertex_ai/middleware.py: extract_vertex_ai_embedding_tokens             *)
(***************************************************************************)
extract_vertex_ai_embedding_tokens(response) ==
    IF response.is_none THEN ZeroCounts
    ELSE IF response.is_list
    THEN IF response.token_count # Absent
         THEN [input_tokens |-> response.token_count, output_tokens |-> 0,
               total_tokens |-> response.token_count, cached_tokens |-> 0]
         ELSE ZeroCounts
    ELSE IF ~IsNone(response.usage_metadata)
    THEN LET um == Val(response.usage_metadata)
             input == PyGetattr(um.prompt_token_count, 0)
         IN  [input_tokens |-> input, output_tokens |-> 0,
              total_tokens |-> PyGetattr(um.total_token_count, input),
              cached_tokens |-> 0]
    ELSE ZeroCounts

(***************************************************************************)
(* vertex_ai/middleware.py: extract_vertex_ai_usage_data                   *)
(***************************************************************************)
\* the finish reason handed to normalize_stop_reason: the name of an enum
\* member, a string as it is, str() of anything else (None included)
vertex_finish_reason(finish_reason) ==
    CASE finish_reason.kind = "enum" -> finish_reason.text   \* .name
      [] finish_reason.kind = "str" -> finish_reason.text
      [] finish_reason.kind = "None" -> "None"               \* str(None), in no table
      [] OTHER -> finish_reason.text                          \* str(...)

\* lines 60-95: _raw_response.model_version, else extract_model_name, else
\* the fallback or "unknown-model"; then the first matching prefix is cut off
vertex_ai_model_name(response, model_name_fallback) ==
    LET cleaned(name) ==
            IF name.exc # "none" THEN name
            ELSE Returned(remove_path_prefix(
                     IF TruthyStr(Val(name.value)) THEN Val(name.value)
                     ELSE IF TruthyStr(model_name_fallback) THEN model_name_fallback
                     ELSE "unknown-model"))
    IN  cleaned(IF ~response.is_none /\ TruthyStr(response.raw_model_version)
                THEN Returned(response.raw_model_version)
                ELSE extract_model_name(response, model_name_fallback))

extract_vertex_ai_usage_data(response, operation_type, model_name_fallback) ==
    LET build(name, counts) ==
            IF name.exc # "none" THEN Raised(name.exc)
            ELSE IF operation_type = "EMBED"
            THEN Returned(UsageData_create("EMBED", extract_vertex_ai_embedding_tokens(response),
                                           Val(name.value), "END"))
            ELSE IF counts.exc # "none" THEN Raised(counts.exc)
            ELSE Returned(UsageData_create("CHAT", Val(counts.value), Val(name.value),
                     normalize_stop_reason(
                         vertex_finish_reason(candidate_finish_reason(response)),
                         "vertex_ai_sdk")))
    IN  build(vertex_ai_model_name(response, model_name_fallback),
              extract_vertex_ai_generation_tokens(response))

(***************************************************************************)
(* common/utils.py: the reporter.                                          *)
(* A task is the coroutine metering_call() handed to run_async_in_thread:  *)
(* status "pending" until its thread runs log_token_usage, "skipped" when  *)
(* that finds the shutdown event set, "running" while create_completion is *)
(* in flight, then "done", "failed" (MeteringError raised in the thread    *)
(* that ran it) or "failed_quiet" (failure during shutdown).  thread names *)
(* the thread that runs the coroutine.                                     *)
(***************************************************************************)
MkTask(coro, thread, status) ==
    [usage |-> coro.usage_data, usage_metadata |-> coro.usage_metadata,
     thread |-> thread, status |-> status]

\* the coroutine object built by the nested metering_call(): it closes over
\* the usage data and the usage_metadata of the call that created it
metering_call(usage_data, usage_metadata, time_to_first_token, is_streamed) ==
    [usage_data |-> [usage_data EXCEPT !.is_streamed = is_streamed,
                                       !.time_to_first_token = time_to_first_token],
     usage_metadata |-> usage_metadata]

\* run_async_in_thread of the revenium_middleware package: hands the
\* coroutine to a new thread and returns at once; starting a thread raises
\* RuntimeError when the interpreter cannot start one
run_async_in_thread(coro) ==
    IF spawn_ok
    THEN Returned(MkTask(coro, "worker", "pending"))
    ELSE Raised("RuntimeError")

\* create_metering_call that runs the coroutine on the calling thread
create_metering_call_inline(usage_data, usage_metadata, time_to_first_token, is_streamed) ==
    LET u == metering_call(usage_data, usage_metadata, time_to_first_token, is_streamed)
        t == MkTask(u, "caller", IF shutdown THEN "skipped"
                                 ELSE IF backend_up THEN "done" ELSE "failed")
    IN  IF t.status = "failed"
        THEN [exc |-> BackendFailure, cause |-> BackendFailure, value |-> Some(t)]
        ELSE Returned(t)

\* create_metering_call that starts the thread and then joins it
create_metering_call_joined(usage_data, usage_metadata, time_to_first_token, is_streamed) ==
    LET u == metering_call(usage_data, usage_metadata, time_to_first_token, is_streamed)
        t == MkTask(u, "worker", IF shutdown THEN "skipped"
                                 ELSE IF backend_up THEN "done" ELSE "failed")
    IN  IF ~spawn_ok THEN Raised("RuntimeError") ELSE Returned(t)

create_metering_call(usage_data, usage_metadata, time_to_first_token, is_streamed) ==
    run_async_in_thread(metering_call(usage_data, usage_metadata, time_to_first_token,
                                      is_streamed))

\* log_token_usage without the shutdown check
log_token_usage_begin_unchecked(task) == [task EXCEPT !.status = "running"]

\* log_token_usage, lines 146-148: the shutdown check before the call
log_token_usage_begin(task) ==
    IF shutdown THEN [task EXCEPT !.status = "skipped"]
    ELSE [task EXCEPT !.status = "running"]

\* log_token_usage, lines 260-290: the outcome of client.ai.create_completion
log_token_usage_end(task) ==
    IF backend_up THEN [task EXCEPT !.status = "done"]
    ELSE IF ~shutdown THEN [task EXCEPT !.status = "failed"]
    ELSE [task EXCEPT !.status = "failed_quiet"]

\* number of client.ai.create_completion invocations so far
create_completion_calls ==
    Cardinality({i \in 1..Len(tasks) :
                   tasks[i].status \in {"running", "done", "failed", "failed_quiet"}})

(***************************************************************************)
(* google_ai/middleware.py: create_google_ai_metering_call                 *)
(* Extraction is outside the try block, create_metering_call inside it.    *)
(***************************************************************************)
create_google_ai_metering_call(response, operation_type, usage_metadata, time_to_first_token, is_streamed, model_name_fallback) ==
    LET \* try: create_metering_call(...) except Exception: logger.error(...)
        guarded(r) == IF r.exc # "none" THEN [ReturnedNone EXCEPT !.value = r.value] ELSE r
        report(usage_data) ==
            IF usage_data.exc # "none" THEN usage_data
            ELSE guarded(create_metering_call(Val(usage_data.value), usage_metadata,
                                              time_to_first_token, is_streamed))
    IN  report(extract_google_ai_usage_data(response, operation_type, model_name_fallback))

(***************************************************************************)
(* vertex_ai/middleware.py: create_vertex_ai_metering_call                 *)
(***************************************************************************)
create_vertex_ai_metering_call(response, operation_type, usage_metadata, time_to_first_token, is_streamed, model_name_fallback) ==
    LET report(usage_data) ==
            IF usage_data.exc # "none" THEN usage_data
            ELSE create_metering_call(Val(usage_data.value), usage_metadata,
                                      time_to_first_token, is_streamed)
    IN  report(extract_vertex_ai_usage_data(response, operation_type, model_name_fallback))

\* the coroutines a reporting call handed over (its value is the task or None)
NewTasks(r) == IF IsNone(r.value) THEN <<>> ELSE <<Val(r.value)>>

(***************************************************************************)
(* common/exceptions.py: handle_metering_error                             *)
(***************************************************************************)
IsMeteringError(e) == e \in {"MeteringError", BackendFailure}

handle_metering_error(r) ==
    IF r.exc = "none" \/ IsMeteringError(r.exc) THEN r
    ELSE RaisedFrom("MeteringError", r)

(***************************************************************************)
(* The non-streamed wrappers.  sdk_r is the outcome of the call of the     *)
(* original SDK method; each wrapper returns the outcome its caller sees   *)
(* and the coroutines it dispatched.                                       *)
(***************************************************************************)
WrapperOutcome(r, new) == [exc |-> r.exc, cause |-> r.cause, value |-> r.value, new |-> new]

\* google_ai/middleware.py: generate_content_wrapper (body, undecorated)
generate_content_wrapper_body(sdk_r, usage_metadata) ==
    IF sdk_r.exc # "none" THEN WrapperOutcome(sdk_r, <<>>)
    ELSE \* try: ... except Exception: logger.error(...)
         WrapperOutcome(sdk_r, NewTasks(
             create_google_ai_metering_call(Val(sdk_r.value), "CHAT", usage_metadata,
                                            0, FALSE, "None")))

generate_content_wrapper(sdk_r, usage_metadata) ==
    LET decorated(r) == WrapperOutcome(handle_metering_error(r), r.new)
    IN  decorated(generate_content_wrapper_body(sdk_r, usage_metadata))

\* google_ai/middleware.py: embed_content_wrapper
embed_content_wrapper_body(sdk_r, usage_metadata, model_name_from_call) ==
    IF sdk_r.exc # "none" THEN WrapperOutcome(sdk_r, <<>>)
    ELSE LET after(m) ==
                 IF m.exc # "none" THEN WrapperOutcome([m EXCEPT !.value = None], NewTasks(m))
                 ELSE WrapperOutcome(sdk_r, NewTasks(m))
         IN  after(create_google_ai_metering_call(Val(sdk_r.value), "EMBED", usage_metadata,
                                                  0, FALSE, model_name_from_call))

embed_content_wrapper(sdk_r, usage_metadata, model_name_from_call) ==
    LET decorated(r) == WrapperOutcome(handle_metering_error(r), r.new)
    IN  decorated(embed_content_wrapper_body(sdk_r, usage_metadata, model_name_from_call))

\* vertex_ai/middleware.py: generate_content_wrapper_impl, stream=False.
\* where the instance carries the model name model_arg: "attribute" in the
\* first of its attributes _model_name, model_name, _model_id, model_id,
\* _model, model; "str_model_name" in no attribute and str(instance) reads
\* ...model_name='<model_arg>'...; "str_models" in no attribute and
\* str(instance) reads ...models/<model_arg>.  A model_arg of "None" is an
\* instance that gives no name either way.
ModelOrigins == {"attribute", "str_model_name", "str_models"}

\* the model name generate_content_wrapper_impl takes from the instance: a
\* name found in an attribute loses its path prefix; only when that leaves
\* no name is str(instance) searched, and match.group(1) is kept as found
instance_model_name(model_arg, model_origin) ==
    IF model_origin = "attribute" THEN remove_path_prefix(model_arg) ELSE model_arg

generate_content_wrapper_impl(sdk_r, usage_metadata, model_arg, model_origin) ==
    IF sdk_r.exc # "none" THEN WrapperOutcome(sdk_r, <<>>)
    ELSE LET after(m) ==
                 IF m.exc # "none" THEN WrapperOutcome([m EXCEPT !.value = None], NewTasks(m))
                 ELSE WrapperOutcome(sdk_r, NewTasks(m))
         IN  after(create_vertex_ai_metering_call(Val(sdk_r.value), "CHAT", usage_metadata,
                                                  0, FALSE,
                                                  instance_model_name(model_arg, model_origin)))

\* vertex_ai/middleware.py: get_embeddings_wrapper; the name found in the
\* attribute or in str(instance) is used as found, whichever gave it
get_embeddings_wrapper(sdk_r, usage_metadata, model_name_from_instance) ==
    IF sdk_r.exc # "none" THEN WrapperOutcome(sdk_r, <<>>)
    ELSE LET after(m) ==
                 IF m.exc # "none" THEN WrapperOutcome([m EXCEPT !.value = None], NewTasks(m))
                 ELSE WrapperOutcome(sdk_r, NewTasks(m))
         IN  after(create_vertex_ai_metering_call(Val(sdk_r.value), "EMBED", usage_metadata,
                                                  0, FALSE, model_name_from_instance))

\* the number of generate_content_wrapper_dynamic wrappers around the
\* generate_content of the class that module_path exposes:
\* patch_function_wrapper replaces the attribute of the class it resolves,
\* so module paths that expose one class wrap its method once per path
generate_content_layers(inst, imp, module_path) ==
    IF module_path \in inst.same_class
    THEN Cardinality(imp.patched \cap inst.same_class)
    ELSE IF module_path \in imp.patched THEN 1 ELSE 0

\* a call through the wrappers: each takes the usage_metadata it finds (the
\* instance's, or else the one it pops from the keyword arguments), calls
\* the one it wraps with the keyword arguments that are left, and reports
\* the response it gets back; the innermost calls the original method
RECURSIVE generate_content_wrapper_dynamic(_, _, _, _, _, _)
generate_content_wrapper_dynamic(layers, sdk_r, inst, kw, model_arg, model_origin) ==
    IF layers = 0 THEN WrapperOutcome(sdk_r, <<>>)
    ELSE LET c == instance_or_pop_usage_metadata(inst, kw)
             stacked(inner, o) == WrapperOutcome(o, inner.new \o o.new)
             outer(inner) ==
                 stacked(inner, generate_content_wrapper_impl(
                                    [exc |-> inner.exc, cause |-> inner.cause,
                                     value |-> inner.value], c.usage_metadata,
                                    model_arg, model_origin))
         IN  outer(generate_content_wrapper_dynamic(layers - 1, sdk_r, inst, c.kwargs,
                                                    model_arg, model_origin))

\* the keyword arguments that reach the original method through the wrappers
RECURSIVE kwargs_after_layers(_, _, _)
kwargs_after_layers(layers, inst, kw) ==
    IF layers = 0 THEN kw
    ELSE kwargs_after_layers(layers - 1, inst, instance_or_pop_usage_metadata(inst, kw).kwargs)

(***************************************************************************)
(* The SDK's stream: a Python generator.  It yields the chunks of its      *)
(* script, then returns (StopIteration) or raises; once it has done        *)
(* either, or has been closed, every later next() raises StopIteration.    *)
(***************************************************************************)
\* closes counts the calls of the generator's close(); running: a thread is
\* inside next() of the generator
MkStream(items, ending) ==
    [items |-> items, pos |-> 0, ending |-> ending, finished |-> FALSE, closes |-> 0,
     running |-> FALSE]

\* next(generator), from the call to the value, StopIteration or exception
gen_next(s) ==
    IF s.finished
    THEN [kind |-> "StopIteration", chunk |-> None, stream |-> [s EXCEPT !.running = FALSE]]
    ELSE IF s.pos < Len(s.items)
    THEN [kind |-> "chunk", chunk |-> Some(s.items[s.pos + 1]),
          stream |-> [s EXCEPT !.pos = @ + 1, !.running = FALSE]]
    ELSE [kind |-> IF s.ending = "raise" THEN "raise" ELSE "StopIteration",
          chunk |-> None, stream |-> [s EXCEPT !.finished = TRUE, !.running = FALSE]]

\* generator.close(): ends a suspended generator; while another thread is
\* inside next() it raises ValueError (generator already executing), which
\* the wrapper's close() catches and logs, and the generator goes on
gen_close(s) ==
    IF s.running THEN [s EXCEPT !.closes = @ + 1]
    ELSE [s EXCEPT !.finished = TRUE, !.closes = @ + 1]

(***************************************************************************)
(* StreamWrapper (google_ai) and VertexAIStreamWrapper (vertex_ai).  The   *)
(* two classes have the same methods; kind selects the statements that     *)
(* differ (initial model, model extraction per chunk, synthetic response,  *)
(* metering call).                                                         *)
(***************************************************************************)
\* call_usage_metadata is the usage_metadata argument of
\* handle_streaming_response, which the methods close over; wraps is
\* self.stream when that is another wrapper, and None when self.stream is the
\* SDK's generator
StreamWrapper(kind, model_name_fallback, usage_metadata, wraps) ==
    [kind |-> kind,
     call_usage_metadata |-> usage_metadata,
     wraps |-> wraps,
     chunks |-> <<>>,
     model |-> IF kind = "vertex_ai" THEN model_name_fallback ELSE "None",
     finish_reason |-> "None",
     usage_metadata |-> None,
     first_chunk_time |-> NoneV,
     closed |-> FALSE,
     usage_logged |-> FALSE,
     \* logger.warning calls made by _process_chunk for the retention cap
     cap_warnings |-> 0]

ChunkAsResponse(chunk) ==
    MkResponse(FALSE, FALSE, chunk.model_version, "None", chunk.usage_metadata,
               chunk.finish_reason, Absent)

\* variant: every chunk is stored
_process_chunk_uncapped(self, chunk, now) ==
    [self EXCEPT
       !.chunks = Append(@, chunk),
       !.first_chunk_time = IF @ = NoneV THEN now ELSE @,
       !.model = IF @ # "None" THEN @
                 ELSE IF self.kind = "google_ai" THEN chunk.model_version
                 ELSE Val(extract_model_name(ChunkAsResponse(chunk), "None").value),
       !.finish_reason = IF TruthyStr(chunk.finish_reason) THEN chunk.finish_reason ELSE @,
       !.usage_metadata = IF IsNone(chunk.usage_metadata) THEN @ ELSE chunk.usage_metadata]

_process_chunk(self, chunk, now) ==
    [self EXCEPT
       !.chunks = IF Len(@) < max_chunks THEN Append(@, chunk) ELSE @,
       !.cap_warnings = IF Len(self.chunks) < max_chunks THEN @
                        ELSE IF Len(self.chunks) = max_chunks THEN @ + 1 ELSE @,
       !.first_chunk_time = IF @ = NoneV THEN now ELSE @,
       !.model = IF @ # "None" THEN @
                 ELSE IF self.kind = "google_ai" THEN chunk.model_version
                 ELSE Val(extract_model_name(ChunkAsResponse(chunk), "None").value),
       !.finish_reason = IF TruthyStr(chunk.finish_reason) THEN chunk.finish_reason ELSE @,
       !.usage_metadata = IF IsNone(chunk.usage_metadata) THEN @ ELSE chunk.usage_metadata]

SyntheticResponse(self) ==
    MkResponse(FALSE, FALSE,
               IF self.kind = "google_ai" THEN self.model ELSE "None",
               IF self.kind = "vertex_ai" THEN self.model ELSE "None",
               self.usage_metadata,
               IF TruthyStr(self.finish_reason) THEN self.finish_reason ELSE "None",
               Absent)

\* _log_usage after its "if not self.chunks: return" check; request_time_dt
\* is time 0 of the logical clock
\* read holds the values that _log_usage has read from first_chunk_time,
\* model, usage_metadata and finish_reason; model_name_fallback is self.model
\* as read for the argument of create_vertex_ai_metering_call
_log_usage_call(read, model_name_fallback) ==
         LET time_to_first_token ==
                 IF read.first_chunk_time # NoneV THEN read.first_chunk_time ELSE 0
             \* except Exception as e: ... raise StreamingError(...) from e
             guarded(r) == IF r.exc # "none" THEN RaisedFrom("StreamingError", r) ELSE r
         IN  guarded(IF read.kind = "google_ai"
                     THEN create_google_ai_metering_call(SyntheticResponse(read), "CHAT",
                              read.call_usage_metadata, time_to_first_token, TRUE, "None")
                     ELSE create_vertex_ai_metering_call(SyntheticResponse(read), "CHAT",
                              read.call_usage_metadata, time_to_first_token, TRUE,
                              model_name_fallback))

_log_usage_report(self) == _log_usage_call(self, self.model)

\* _log_usage without the check for retained chunks
_log_usage_unguarded(self) == _log_usage_report(self)

_log_usage(self) ==
    IF self.chunks = <<>> THEN ReturnedNone ELSE _log_usage_report(self)

MethodOutcome(self, r, new) == [w |-> self, exc |-> r.exc, cause |-> r.cause, new |-> new]

_finalize(self) ==
    IF self.usage_logged THEN MethodOutcome(self, ReturnedNone, <<>>)
    ELSE LET logged(r) ==
                 IF r.exc # "none" THEN MethodOutcome(self, r, NewTasks(r))
                 ELSE MethodOutcome([self EXCEPT !.usage_logged = TRUE], r, NewTasks(r))
         IN  logged(_log_usage(self))

\* _handle_error that forgets to set the flag after logging
_handle_error_no_flag(self) ==
    IF self.usage_logged THEN MethodOutcome(self, ReturnedNone, <<>>)
    ELSE MethodOutcome(self, ReturnedNone, NewTasks(_log_usage(self)))

_handle_error(self) ==
    IF self.usage_logged THEN MethodOutcome(self, ReturnedNone, <<>>)
    ELSE LET logged(r) ==
                 \* except Exception as log_error: logger.error(...)
                 IF r.exc # "none" THEN MethodOutcome(self, ReturnedNone, NewTasks(r))
                 ELSE MethodOutcome([self EXCEPT !.usage_logged = TRUE], r, NewTasks(r))
         IN  logged(_log_usage(self))

\* self.stream.close(): the generator's close(), or the close() of the
\* wrapper that this one wraps; c is the wrapper after its own statements
RECURSIVE close(_, _)
stream_close(c, own, s) ==
    IF IsNone(c.wraps)
    THEN [w |-> c, stream |-> gen_close(s), new |-> own]
    ELSE LET closed_inner(r) ==
                 [w |-> [c EXCEPT !.wraps = Some(r.w)], stream |-> r.stream,
                  new |-> own \o r.new]
         IN  closed_inner(close(Val(c.wraps), s))

\* close() that closes the underlying stream on every call
close_reclosing_stream(self, s) ==
    IF self.closed THEN stream_close(self, <<>>, s)
    ELSE LET c == [self EXCEPT !.closed = TRUE]
         IN  stream_close([c EXCEPT !.chunks = <<>>],
                          NewTasks(IF c.usage_logged THEN ReturnedNone ELSE _log_usage(c)), s)

\* close(): returns the wrapper, the generator and the dispatched coroutines
close(self, s) ==
    IF self.closed THEN [w |-> self, stream |-> s, new |-> <<>>]
    ELSE LET c == [self EXCEPT !.closed = TRUE]
         IN  stream_close([c EXCEPT !.chunks = <<>>],
                          NewTasks(IF c.usage_logged THEN ReturnedNone ELSE _log_usage(c)), s)

\* next(self.stream): the generator's next step, or the __next__ of the
\* wrapper that this one wraps.  inner is that wrapper afterwards and new the
\* coroutines it dispatched
RECURSIVE __next__(_, _, _)
stream_next(self, s, now) ==
    IF IsNone(self.wraps)
    THEN LET of_generator(g) ==
                 [kind |-> g.kind, chunk |-> g.chunk, stream |-> g.stream,
                  exc |-> CASE g.kind = "chunk" -> "none"
                            [] g.kind = "StopIteration" -> "StopIteration"
                            [] g.kind = "raise" -> "SDKError",
                  cause |-> IF g.kind = "chunk" THEN "none" ELSE "stream",
                  inner |-> None, new |-> <<>>]
         IN  of_generator(gen_next(s))
    ELSE LET of_wrapper(r) ==
                 [kind |-> r.kind, chunk |-> r.chunk, stream |-> r.stream,
                  exc |-> r.exc, cause |-> r.cause, inner |-> Some(r.w), new |-> r.new]
         IN  of_wrapper(__next__(Val(self.wraps), s, now))

\* __next__ that returns the last retained chunk instead of the one received
next_returning_retained(self, s, now) ==
    IF self.closed
    THEN [w |-> self, stream |-> s, new |-> <<>>, kind |-> "StopIteration",
          exc |-> "StopIteration", cause |-> "closed", chunk |-> None]
    ELSE LET g == stream_next(self, s, now)
         IN  CASE g.kind = "chunk" ->
                   LET p == _process_chunk([self EXCEPT !.wraps = g.inner], Val(g.chunk), now)
                   IN  [w |-> p, stream |-> g.stream,
                        new |-> g.new, kind |-> "chunk", exc |-> "none", cause |-> "none",
                        chunk |-> Some(p.chunks[Len(p.chunks)])]
               [] g.kind = "StopIteration" ->
                   LET finalized(f) ==
                           [w |-> f.w, stream |-> g.stream, new |-> g.new \o f.new,
                            kind |-> IF f.exc = "none" THEN "StopIteration" ELSE "raise",
                            exc |-> IF f.exc = "none" THEN "StopIteration" ELSE f.exc,
                            cause |-> IF f.exc = "none" THEN g.cause ELSE f.cause,
                            chunk |-> None]
                   IN  finalized(_finalize([self EXCEPT !.wraps = g.inner]))
               [] g.kind = "raise" ->
                   LET handled(h) ==
                           [w |-> h.w, stream |-> g.stream, new |-> g.new \o h.new,
                            kind |-> "raise", exc |-> g.exc, cause |-> g.cause,
                            chunk |-> None]
                   IN  handled(_handle_error([self EXCEPT !.wraps = g.inner]))

\* __next__ that finalizes as soon as a chunk carries usage metadata
next_reporting_early(self, s, now) ==
    IF self.closed
    THEN [w |-> self, stream |-> s, new |-> <<>>, kind |-> "StopIteration",
          exc |-> "StopIteration", cause |-> "closed", chunk |-> None]
    ELSE LET g == stream_next(self, s, now)
         IN  CASE g.kind = "chunk" ->
                   LET p == _process_chunk([self EXCEPT !.wraps = g.inner], Val(g.chunk), now)
                       reported(h) ==
                           [w |-> h.w, stream |-> g.stream,
                            new |-> g.new \o h.new, kind |-> "chunk", exc |-> "none",
                            cause |-> "none", chunk |-> g.chunk]
                   IN  reported(IF IsNone(Val(g.chunk).usage_metadata)
                                THEN MethodOutcome(p, ReturnedNone, <<>>)
                                ELSE _handle_error(p))
               [] g.kind = "StopIteration" ->
                   LET finalized(f) ==
                           [w |-> f.w, stream |-> g.stream, new |-> g.new \o f.new,
                            kind |-> IF f.exc = "none" THEN "StopIteration" ELSE "raise",
                            exc |-> IF f.exc = "none" THEN "StopIteration" ELSE f.exc,
                            cause |-> IF f.exc = "none" THEN g.cause ELSE f.cause,
                            chunk |-> None]
                   IN  finalized(_finalize([self EXCEPT !.wraps = g.inner]))
               [] g.kind = "raise" ->
                   LET handled(h) ==
                           [w |-> h.w, stream |-> g.stream, new |-> g.new \o h.new,
                            kind |-> "raise", exc |-> g.exc, cause |-> g.cause,
                            chunk |-> None]
                   IN  handled(_handle_error([self EXCEPT !.wraps = g.inner]))

\* __next__(): kind is what the consumer gets
__next__(self, s, now) ==
    IF self.closed
    THEN [w |-> self, stream |-> s, new |-> <<>>, kind |-> "StopIteration",
          exc |-> "StopIteration", cause |-> "closed", chunk |-> None]
    ELSE LET g == stream_next(self, s, now)
         IN  CASE g.kind = "chunk" ->
                   [w |-> _process_chunk([self EXCEPT !.wraps = g.inner], Val(g.chunk), now),
                    stream |-> g.stream,
                    new |-> g.new, kind |-> "chunk", exc |-> "none", cause |-> "none",
                    chunk |-> g.chunk]
               [] g.kind = "StopIteration" ->
                   LET finalized(f) ==
                           [w |-> f.w, stream |-> g.stream, new |-> g.new \o f.new,
                            kind |-> IF f.exc = "none" THEN "StopIteration" ELSE "raise",
                            exc |-> IF f.exc = "none" THEN "StopIteration" ELSE f.exc,
                            cause |-> IF f.exc = "none" THEN g.cause ELSE f.cause,
                            chunk |-> None]
                   IN  finalized(_finalize([self EXCEPT !.wraps = g.inner]))
               [] g.kind = "raise" ->
                   LET handled(h) ==
                           [w |-> h.w, stream |-> g.stream, new |-> g.new \o h.new,
                            kind |-> "raise", exc |-> g.exc, cause |-> g.cause,
                            chunk |-> None]
                   IN  handled(_handle_error([self EXCEPT !.wraps = g.inner]))

(***************************************************************************)
(* One logical call: the caller invokes an intercepted entry point once,   *)
(* then (for a streamed call) operates the returned wrapper, while the     *)
(* reporter's threads and the environment move on their own.               *)
(***************************************************************************)
NonStreamEntries == {"google_ai.generate_content", "google_ai.embed_content",
                     "vertex_ai.generate_content", "vertex_ai.get_embeddings"}
StreamEntries == {"google_ai.generate_content_stream", "vertex_ai.generate_content(stream)"}
\* the two ways to call the method that generate_content_wrapper_dynamic wraps
VertexGenerateEntries == {"vertex_ai.generate_content", "vertex_ai.generate_content(stream)"}

ModelArgs == {"None", "gemini-x"}

RECURSIVE ScriptsOfLen(_)
ScriptsOfLen(n) ==
    IF n = 0 THEN {<<>>}
    ELSE {Append(p, MkChunk(n, k)) : p \in ScriptsOfLen(n - 1), k \in ChunkKinds}

Scripts == UNION {ScriptsOfLen(n) : n \in 0..MaxStream}

NoResult == [exc |-> "none", cause |-> "none", value |-> None]
NoOp == [op |-> "none", kind |-> "none", exc |-> "none", cause |-> "none", chunk |-> None]
NoRegs == [got |-> "none", chunk |-> None, room |-> FALSE]
NoRegsA == [first_chunk_time |-> NoneV, model |-> "None", usage_metadata |-> None,
            finish_reason |-> "None"]

\* the streamed calls of the two-call specification: none has been made
CallIds == {1, 2}

EmptyHeap ==
    [frames |-> [i \in CallIds |-> None],
     objects |-> [i \in CallIds |-> None],
     lists |-> <<>>,
     generators |-> [i \in CallIds |-> MkStream(<<>>, "stop")],
     \* per call: the chunks its consumer got, the coroutines its methods
     \* dispatched, the number of its consumer's operations
     yielded |-> [i \in CallIds |-> <<>>],
     reports |-> [i \in CallIds |-> <<>>],
     nops |-> [i \in CallIds |-> 0]]

InitCommon ==
    /\ phase = "idle"
    /\ call_result = NoResult
    /\ w = None
    /\ yielded = <<>>
    /\ last = NoOp
    /\ tasks = <<>>
    /\ shutdown = FALSE
    /\ backend_up = TRUE
    /\ spawn_ok = TRUE
    /\ nops = 0
    /\ pcA = "idle"
    /\ pcB = "idle"
    /\ regA = NoRegsA
    /\ regB = NoRegs
    /\ forwarded = None
    /\ captured = EmptyMeta
    /\ completion_args = None
    /\ heap = EmptyHeap

\* both SDKs are installed, the Vertex AI SDK with the first two module
\* paths and a GenerativeModel class of its own in each, and the package
\* has been imported
InitImported ==
    /\ installed = [google_genai |-> TRUE, google_models |-> TRUE,
                    models_attrs |-> {GoogleTargets[i] : i \in 1..Len(GoogleTargets)},
                    vertexai |-> TRUE, language_models |-> TRUE, get_embeddings |-> TRUE,
                    generative |-> [m \in {module_patterns[i] : i \in 1..Len(module_patterns)}
                                      |-> IF m \in {module_patterns[1], module_patterns[2]}
                                          THEN "ok" ELSE "absent"],
                    same_class |-> {}]
    /\ importing = [pc |-> "done", exc |-> "none",
                    patched |-> {GoogleTargets[i] : i \in 1..Len(GoogleTargets)}
                                \cup {"TextEmbeddingModel.get_embeddings"}
                                \cup {module_patterns[1], module_patterns[2]}]

\* no extraction is run on its own
InitNoProbe ==
    /\ probe = [response |-> RespNone, operation_type |-> "CHAT",
                finish_reason |-> FinishValue("None", ""), sdk_type |-> "google_ai_sdk",
                model_name_fallback |-> "None", resolved_name |-> <<"gemini-x">>]
    /\ extracted = None

\* the caller passes no usage_metadata
InitPlainCall ==
    /\ instance = None
    /\ kwargs = [usage_metadata |-> None, rest |-> {"config"}]

Init ==
    /\ InitCommon
    /\ InitNoProbe
    /\ InitImported
    /\ InitPlainCall
    /\ \/ /\ entry \in NonStreamEntries
          /\ sdk \in [raises : BOOLEAN, response : Responses, model_arg : ModelArgs,
                       model_origin : {"attribute"},
                       module_path : {module_patterns[1]}]
          /\ sdk.raises => sdk.response = RespNone
          /\ stream = MkStream(<<>>, "stop")
       \/ /\ entry \in StreamEntries
          /\ sdk \in [raises : BOOLEAN, response : {RespNone}, model_arg : ModelArgs,
                       model_origin : {"attribute"},
                       module_path : {module_patterns[1]}]
          /\ entry = "google_ai.generate_content_stream" => sdk.model_arg = "None"
          /\ stream \in {MkStream(items, e) : items \in Scripts, e \in {"stop", "raise"}}
          /\ sdk.raises => stream = MkStream(<<>>, "stop")

\* the outcome of the original SDK method
SdkOutcome == IF sdk.raises THEN Raised("SDKError") ELSE Returned(sdk.response)

\* generate_content_wrapper_impl, stream=True, through the wrappers around
\* generate_content: each returns handle_vertex_ai_streaming_response(...) of
\* the stream it got from the one it wraps, with the usage_metadata it took
\* and the model name it took from the instance.  None: the method is not
\* wrapped and the caller gets the SDK's generator
RECURSIVE handle_vertex_ai_streaming_response(_, _, _, _, _)
handle_vertex_ai_streaming_response(layers, inst, kw, model_arg, model_origin) ==
    IF layers = 0 THEN None
    ELSE LET c == instance_or_pop_usage_metadata(inst, kw)
         IN  Some(StreamWrapper("vertex_ai", instance_model_name(model_arg, model_origin),
                                c.usage_metadata,
                                handle_vertex_ai_streaming_response(
                                    layers - 1, inst, c.kwargs, model_arg, model_origin)))

\* the wrapper that entry point e is patched with, applied to this call
Intercept(e) ==
    CASE e = "google_ai.generate_content" ->
             generate_content_wrapper(SdkOutcome, pop_usage_metadata(kwargs).usage_metadata)
      [] e = "google_ai.embed_content" ->
             embed_content_wrapper(SdkOutcome, pop_usage_metadata(kwargs).usage_metadata,
                                   sdk.model_arg)
      [] e = "vertex_ai.generate_content" ->
             generate_content_wrapper_dynamic(generate_content_layers(installed, importing, sdk.module_path),
                                              SdkOutcome, instance, kwargs, sdk.model_arg,
                                              sdk.model_origin)
      [] e = "vertex_ai.get_embeddings" ->
             get_embeddings_wrapper(SdkOutcome,
                                    instance_or_pop_usage_metadata(instance, kwargs).usage_metadata,
                                    sdk.model_arg)
      [] e = "google_ai.generate_content_stream" ->
             \* generate_content_stream_wrapper: decorated, returns the wrapper
             WrapperOutcome(handle_metering_error(
                 IF sdk.raises THEN Raised("SDKError") ELSE ReturnedNone), <<>>)
      [] e = "vertex_ai.generate_content(stream)" ->
             \* generate_content_wrapper_impl, stream=True: returns the wrapper
             WrapperOutcome(IF sdk.raises THEN Raised("SDKError") ELSE ReturnedNone, <<>>)

\* The caller invokes the intercepted entry point.
Call ==
    /\ phase = "idle"
    /\ \E r \in {Intercept(entry)} :
           /\ call_result' = [exc |-> r.exc, cause |-> r.cause, value |-> r.value]
           /\ tasks' = tasks \o r.new
           /\ w' = CASE r.exc # "none" -> None
                     [] entry = "google_ai.generate_content_stream" ->
                            \* handle_streaming_response(stream, ..., usage_metadata)
                            Some(StreamWrapper("google_ai", "None",
                                               pop_usage_metadata(kwargs).usage_metadata, None))
                     [] entry = "vertex_ai.generate_content(stream)" ->
                            handle_vertex_ai_streaming_response(
                                generate_content_layers(installed, importing, sdk.module_path),
                                instance, kwargs, sdk.model_arg, sdk.model_origin)
                     [] OTHER -> None
    /\ \E c \in {capture_usage_metadata(entry, instance, kwargs)} :
           IF entry \in VertexGenerateEntries
           THEN /\ forwarded' = Some(kwargs_after_layers(
                                        generate_content_layers(installed, importing, sdk.module_path),
                                        instance, kwargs))
                /\ captured' = IF generate_content_layers(installed, importing, sdk.module_path) = 0
                               THEN EmptyMeta ELSE c.usage_metadata
           ELSE /\ forwarded' = Some(c.kwargs)
                /\ captured' = c.usage_metadata
    /\ phase' = "called"
    /\ UNCHANGED <<heap, extractState, pkgState, metaIn, completion_args, entry, sdk, stream, yielded, last, shutdown, backend_up,
                   spawn_ok, nops, pcA, regA, pcB, regB>>

\* The consumer calls __next__ on the wrapper.
Next_ ==
    /\ phase = "called"
    /\ ~IsNone(w)
    /\ nops < MaxOps
    /\ \E r \in {__next__(Val(w), stream, nops + 1)} :
           /\ w' = Some(r.w)
           /\ stream' = r.stream
           /\ tasks' = tasks \o r.new
           /\ yielded' = IF r.kind = "chunk" THEN Append(yielded, Val(r.chunk)) ELSE yielded
           /\ last' = [op |-> "next", kind |-> r.kind, exc |-> r.exc, cause |-> r.cause,
                       chunk |-> r.chunk]
    /\ nops' = nops + 1
    /\ UNCHANGED <<heap, extractState, pkgState, metaIn, metaOut, entry, sdk, phase, call_result, shutdown, backend_up, spawn_ok,
                   pcA, regA, pcB, regB>>

\* The consumer calls close() on the wrapper.
Close ==
    /\ phase = "called"
    /\ ~IsNone(w)
    /\ nops < MaxOps
    /\ \E r \in {close(Val(w), stream)} :
           /\ w' = Some(r.w)
           /\ stream' = r.stream
           /\ tasks' = tasks \o r.new
    /\ last' = [op |-> "close", kind |-> "return", exc |-> "none", cause |-> "none",
                chunk |-> None]
    /\ nops' = nops + 1
    /\ UNCHANGED <<heap, extractState, pkgState, metaIn, metaOut, entry, sdk, phase, call_result, yielded, shutdown, backend_up,
                   spawn_ok, pcA, regA, pcB, regB>>

\* A reporter thread starts log_token_usage for a dispatched coroutine.
TaskBegin ==
    /\ \E i \in 1..Len(tasks) :
          /\ tasks[i].status = "pending"
          /\ tasks[i].thread = "worker"
          /\ tasks' = [tasks EXCEPT ![i] = log_token_usage_begin(@)]
          /\ completion_args' = IF shutdown THEN completion_args
                                 ELSE Some(log_token_usage_args(tasks[i].usage_metadata))
    /\ UNCHANGED <<heap, extractState, pkgState, metaIn, forwarded, captured, entry, sdk, phase, call_result, w, stream, yielded, last,
                   shutdown, backend_up, spawn_ok, nops, pcA, regA, pcB, regB>>

\* client.ai.create_completion returns or raises in the reporter thread.
TaskEnd ==
    /\ \E i \in 1..Len(tasks) :
          /\ tasks[i].status = "running"
          /\ tasks[i].thread = "worker"
          /\ tasks' = [tasks EXCEPT ![i] = log_token_usage_end(@)]
    /\ UNCHANGED <<heap, extractState, pkgState, metaIn, metaOut, entry, sdk, phase, call_result, w, stream, yielded, last,
                   shutdown, backend_up, spawn_ok, nops, pcA, regA, pcB, regB>>

\* The process starts shutting down: shutdown_event.set().
SetShutdown ==
    /\ ~shutdown
    /\ shutdown' = TRUE
    /\ UNCHANGED <<heap, extractState, pkgState, metaIn, metaOut, entry, sdk, phase, call_result, w, stream, yielded, last, tasks,
                   backend_up, spawn_ok, nops, pcA, regA, pcB, regB>>

\* The backend starts or stops accepting submissions.
BackendChange ==
    /\ backend_up' = ~backend_up
    /\ UNCHANGED <<heap, extractState, pkgState, metaIn, metaOut, entry, sdk, phase, call_result, w, stream, yielded, last, tasks,
                   shutdown, spawn_ok, nops, pcA, regA, pcB, regB>>

\* The process gains or loses the ability to start a thread.
ThreadLimitChange ==
    /\ spawn_ok' = ~spawn_ok
    /\ UNCHANGED <<heap, extractState, pkgState, metaIn, metaOut, entry, sdk, phase, call_result, w, stream, yielded, last, tasks,
                   shutdown, backend_up, nops, pcA, regA, pcB, regB>>

Next ==
    \/ Call
    \/ Next_
    \/ Close
    \/ TaskBegin
    \/ TaskEnd
    \/ SetShutdown
    \/ BackendChange
    \/ ThreadLimitChange

Spec == Init /\ [][Next]_vars

(***************************************************************************)
(* The same wrapper used by two threads: thread A runs close() once while  *)
(* thread B runs __next__() calls.  The methods take no lock.  A step is   *)
(* one read or one write of an attribute that the other thread writes or   *)
(* reads; statements are taken together only where they touch attributes   *)
(* the other thread never writes (B's reads inside _log_usage: close()     *)
(* writes _closed and chunks only) or where the second read of a value     *)
(* that is written once cannot differ from the first (first_chunk_time,    *)
(* and finish_reason whose every stored value is the same code).           *)
(***************************************************************************)
InitRace ==
    /\ Init
    /\ entry \in StreamEntries
    /\ ~sdk.raises

WrapperLive == phase = "called" /\ ~IsNone(w)

RaceFrameA == <<heap, extractState, pkgState, metaIn, metaOut, entry, sdk, phase, call_result, yielded, last, shutdown, backend_up,
                spawn_ok, nops, pcB, regB>>
RaceFrameB == <<heap, extractState, pkgState, metaIn, metaOut, entry, sdk, phase, call_result, shutdown, backend_up, spawn_ok, pcA, regA>>

\* close(): if not self._closed
A_Enter ==
    /\ WrapperLive /\ pcA = "idle"
    /\ pcA' = IF Val(w).closed THEN "done" ELSE "set_closed"
    /\ UNCHANGED <<w, stream, tasks, regA>> /\ UNCHANGED RaceFrameA

\* close(): self._closed = True
A_SetClosed ==
    /\ pcA = "set_closed"
    /\ w' = Some([Val(w) EXCEPT !.closed = TRUE])
    /\ pcA' = "logged_check"
    /\ UNCHANGED <<stream, tasks, regA>> /\ UNCHANGED RaceFrameA

\* close(): if not self._usage_logged
A_LoggedCheck ==
    /\ pcA = "logged_check"
    /\ pcA' = IF Val(w).usage_logged THEN "clear" ELSE "log_check"
    /\ UNCHANGED <<w, stream, tasks, regA>> /\ UNCHANGED RaceFrameA

\* _log_usage(): if not self.chunks: return
A_LogCheck ==
    /\ pcA = "log_check"
    /\ pcA' = IF Val(w).chunks = <<>> THEN "clear" ELSE "read_first_chunk_time"
    /\ UNCHANGED <<w, stream, tasks, regA>> /\ UNCHANGED RaceFrameA

\* _log_usage(): if self.first_chunk_time: time_to_first_token = ...
A_ReadFirstChunkTime ==
    /\ pcA = "read_first_chunk_time"
    /\ regA' = [regA EXCEPT !.first_chunk_time = Val(w).first_chunk_time]
    /\ pcA' = "read_model"
    /\ UNCHANGED <<w, stream, tasks>> /\ UNCHANGED RaceFrameA

\* _log_usage(): SyntheticResponse(model_version=self.model, ...)
A_ReadModel ==
    /\ pcA = "read_model"
    /\ regA' = [regA EXCEPT !.model = Val(w).model]
    /\ pcA' = "read_usage_metadata"
    /\ UNCHANGED <<w, stream, tasks>> /\ UNCHANGED RaceFrameA

\* _log_usage(): SyntheticResponse(..., usage_metadata=self.usage_metadata, ...)
A_ReadUsageMetadata ==
    /\ pcA = "read_usage_metadata"
    /\ regA' = [regA EXCEPT !.usage_metadata = Val(w).usage_metadata]
    /\ pcA' = "read_finish_reason"
    /\ UNCHANGED <<w, stream, tasks>> /\ UNCHANGED RaceFrameA

\* _log_usage(): candidates=[... self.finish_reason ...] if self.finish_reason else []
A_ReadFinishReason ==
    /\ pcA = "read_finish_reason"
    /\ regA' = [regA EXCEPT !.finish_reason = Val(w).finish_reason]
    /\ pcA' = "log_send"
    /\ UNCHANGED <<w, stream, tasks>> /\ UNCHANGED RaceFrameA

\* the attribute values thread A has read
ReadByA ==
    [Val(w) EXCEPT !.first_chunk_time = regA.first_chunk_time, !.model = regA.model,
                   !.usage_metadata = regA.usage_metadata,
                   !.finish_reason = regA.finish_reason]

\* _log_usage(): the metering call (vertex_ai reads self.model once more for
\* model_name_fallback); close() catches the exception of _log_usage
A_LogSend ==
    /\ pcA = "log_send"
    /\ tasks' = tasks \o NewTasks(_log_usage_call(ReadByA, Val(w).model))
    /\ pcA' = "clear"
    /\ UNCHANGED <<w, stream, regA>> /\ UNCHANGED RaceFrameA

\* close(): self.chunks.clear()
A_Clear ==
    /\ pcA = "clear"
    /\ w' = Some([Val(w) EXCEPT !.chunks = <<>>])
    /\ pcA' = "close_stream"
    /\ UNCHANGED <<stream, tasks, regA>> /\ UNCHANGED RaceFrameA

\* close(): try: self.stream.close() except Exception: logger.debug(...)
A_CloseStream ==
    /\ pcA = "close_stream"
    /\ stream' = gen_close(stream)
    /\ pcA' = "done"
    /\ UNCHANGED <<w, tasks, regA>> /\ UNCHANGED RaceFrameA

BReturns(kind, exc, cause, chunk) ==
    /\ last' = [op |-> "next", kind |-> kind, exc |-> exc, cause |-> cause, chunk |-> chunk]
    /\ pcB' = "idle"
    /\ regB' = NoRegs

BContinues(pc) == pcB' = pc /\ UNCHANGED <<last, regB>>

\* the signal __next__ re-raises once its reporting is over
BResignal ==
    IF regB.got = "raise" THEN BReturns("raise", "SDKError", "stream", None)
    ELSE BReturns("StopIteration", "StopIteration", "stream", None)

\* __next__(): if self._closed: raise StopIteration
B_Enter ==
    /\ WrapperLive /\ pcB = "idle" /\ nops < MaxOps
    /\ nops' = nops + 1
    /\ IF Val(w).closed
       THEN BReturns("StopIteration", "StopIteration", "closed", None)
       ELSE BContinues("stream_enter")
    /\ UNCHANGED <<w, stream, tasks, yielded>> /\ UNCHANGED RaceFrameB

\* __next__(): next(self.stream) is called: the generator starts to run
B_StreamEnter ==
    /\ pcB = "stream_enter"
    /\ stream' = [stream EXCEPT !.running = TRUE]
    /\ BContinues("stream_next")
    /\ UNCHANGED <<w, tasks, yielded, nops>> /\ UNCHANGED RaceFrameB

\* __next__(): chunk = next(self.stream): the generator yields, returns or raises
B_StreamNext ==
    /\ pcB = "stream_next"
    /\ LET g == gen_next(stream)
       IN  /\ stream' = g.stream
           /\ regB' = [regB EXCEPT !.got = g.kind, !.chunk = g.chunk]
           /\ pcB' = IF g.kind = "chunk" THEN "cap_check" ELSE "logged_check"
    /\ UNCHANGED <<w, tasks, yielded, last, nops>> /\ UNCHANGED RaceFrameB

\* _process_chunk(): if len(self.chunks) < self._max_chunks
B_CapCheck ==
    /\ pcB = "cap_check"
    /\ regB' = [regB EXCEPT !.room = Len(Val(w).chunks) < max_chunks]
    /\ pcB' = "append"
    /\ UNCHANGED <<w, stream, tasks, yielded, last, nops>> /\ UNCHANGED RaceFrameB

\* _process_chunk(): self.chunks.append(chunk), or the warning of the branch
\* elif len(self.chunks) == self._max_chunks
B_Append ==
    /\ pcB = "append"
    /\ w' = Some(IF regB.room
                 THEN [Val(w) EXCEPT !.chunks = Append(@, Val(regB.chunk))]
                 ELSE [Val(w) EXCEPT !.cap_warnings =
                                        IF Len(Val(w).chunks) = max_chunks THEN @ + 1 ELSE @])
    /\ BContinues("set_first_chunk_time")
    /\ UNCHANGED <<stream, tasks, yielded, nops>> /\ UNCHANGED RaceFrameB

\* the attribute values _process_chunk stores for the chunk thread B holds
ProcessedByB == _process_chunk(Val(w), Val(regB.chunk), nops)

\* _process_chunk(): if self.first_chunk_time is None: self.first_chunk_time = now
B_SetFirstChunkTime ==
    /\ pcB = "set_first_chunk_time"
    /\ w' = Some([Val(w) EXCEPT !.first_chunk_time = ProcessedByB.first_chunk_time])
    /\ BContinues("set_model")
    /\ UNCHANGED <<stream, tasks, yielded, nops>> /\ UNCHANGED RaceFrameB

\* _process_chunk(): if self.model is None: self.model = ...
B_SetModel ==
    /\ pcB = "set_model"
    /\ w' = Some([Val(w) EXCEPT !.model = ProcessedByB.model])
    /\ BContinues("set_finish_reason")
    /\ UNCHANGED <<stream, tasks, yielded, nops>> /\ UNCHANGED RaceFrameB

\* _process_chunk(): if finish_reason: self.finish_reason = finish_reason
B_SetFinishReason ==
    /\ pcB = "set_finish_reason"
    /\ w' = Some([Val(w) EXCEPT !.finish_reason = ProcessedByB.finish_reason])
    /\ BContinues("set_usage_metadata")
    /\ UNCHANGED <<stream, tasks, yielded, nops>> /\ UNCHANGED RaceFrameB

\* _process_chunk(): if usage_metadata: self.usage_metadata = usage_metadata;
\* __next__(): return chunk
B_SetUsageMetadata ==
    /\ pcB = "set_usage_metadata"
    /\ w' = Some([Val(w) EXCEPT !.usage_metadata = ProcessedByB.usage_metadata])
    /\ yielded' = Append(yielded, Val(regB.chunk))
    /\ BReturns("chunk", "none", "none", regB.chunk)
    /\ UNCHANGED <<stream, tasks, nops>> /\ UNCHANGED RaceFrameB

\* _finalize() / _handle_error(): if not self._usage_logged
B_LoggedCheck ==
    /\ pcB = "logged_check"
    /\ IF Val(w).usage_logged THEN BResignal ELSE BContinues("log_check")
    /\ UNCHANGED <<w, stream, tasks, yielded, nops>> /\ UNCHANGED RaceFrameB

\* _log_usage(): if not self.chunks: return
B_LogCheck ==
    /\ pcB = "log_check"
    /\ BContinues(IF Val(w).chunks = <<>> THEN "set_logged" ELSE "log_send")
    /\ UNCHANGED <<w, stream, tasks, yielded, nops>> /\ UNCHANGED RaceFrameB

\* _log_usage(): synthesis and metering call.  _finalize lets a failure
\* out of __next__; _handle_error swallows it and leaves the flag unset.
B_LogSend ==
    /\ pcB = "log_send"
    /\ \E r \in {_log_usage_report(Val(w))} :
           /\ tasks' = tasks \o NewTasks(r)
           /\ IF r.exc = "none" THEN BContinues("set_logged")
              ELSE IF regB.got = "raise" THEN BResignal
              ELSE BReturns("raise", r.exc, r.cause, None)
    /\ UNCHANGED <<w, stream, yielded, nops>> /\ UNCHANGED RaceFrameB

\* _finalize() / _handle_error(): self._usage_logged = True; then re-raise
B_SetLogged ==
    /\ pcB = "set_logged"
    /\ w' = Some([Val(w) EXCEPT !.usage_logged = TRUE])
    /\ BResignal
    /\ UNCHANGED <<stream, tasks, yielded, nops>> /\ UNCHANGED RaceFrameB

NextRace ==
    \/ Call
    \/ A_Enter
    \/ A_SetClosed
    \/ A_LoggedCheck
    \/ A_LogCheck
    \/ A_ReadFirstChunkTime
    \/ A_ReadModel
    \/ A_ReadUsageMetadata
    \/ A_ReadFinishReason
    \/ A_LogSend
    \/ A_Clear
    \/ A_CloseStream
    \/ B_Enter
    \/ B_StreamEnter
    \/ B_StreamNext
    \/ B_CapCheck
    \/ B_Append
    \/ B_SetFirstChunkTime
    \/ B_SetModel
    \/ B_SetFinishReason
    \/ B_SetUsageMetadata
    \/ B_LoggedCheck
    \/ B_LogCheck
    \/ B_LogSend
    \/ B_SetLogged

SpecRace == InitRace /\ [][NextRace]_vars

(***************************************************************************)
(* Properties of the stream wrappers.                                      *)
(***************************************************************************)
HasWrapper == phase = "called" /\ ~IsNone(w)

\* the stream has ended: exhausted, failed or closed
Ended == HasWrapper /\ (Val(w).closed \/ stream.finished)

\* the accumulated usage metadata has no None among the counts that
\* extraction adds up
CountsPresent(self) ==
    \/ IsNone(self.usage_metadata)
    \/ /\ Val(self.usage_metadata).prompt_token_count # NoneV
       /\ Val(self.usage_metadata).candidates_token_count # NoneV

\* C1: however the stream ends (exhausted, closed early, or the underlying
\* iterator raised), the metering submission has been made exactly once for
\* the wrapper.
C1_ExactlyOncePerStream == Ended => Len(tasks) = 1

\* C2: once close() has been called on a wrapper, whatever the number of
\* calls, one submission has been made.
C2_CloseProducesOneSubmission == (HasWrapper /\ Val(w).closed) => Len(tasks) = 1

\* C6: the chunks returned by successive __next__ calls are a prefix of the
\* underlying sequence: same chunks, same order, none dropped or repeated.
C6_YieldedIsPrefix ==
    /\ Len(yielded) <= Len(stream.items)
    /\ \A i \in 1..Len(yielded) : yielded[i] = stream.items[i]

\* C6 witness: more chunks passed through than the wrapper retains
C6_Witness ==
    /\ HasWrapper
    /\ Len(yielded) > max_chunks
    /\ Len(Val(w).chunks) = max_chunks

\* C8: once the submission of a wrapper has been dispatched, no later
\* __next__ call yields another chunk.
C8_NoChunkAfterSubmission == [][tasks # <<>> => yielded' = yielded]_vars

\* C8 witness: the submission is out and a later __next__ signalled the end
C8_Witness ==
    /\ HasWrapper
    /\ tasks # <<>>
    /\ last.op = "next" /\ last.kind = "StopIteration" /\ last.cause = "closed"
    /\ Len(yielded) < Len(stream.items)

\* C3: when close() on one thread races with a __next__ on another thread
\* that observes exhaustion, the submission is made exactly once (for a
\* wrapper that yielded a chunk and whose accumulated counts are present).
C3_ExactlyOnceUnderRace ==
    (/\ HasWrapper
     /\ pcA = "done" /\ pcB = "idle"
     /\ last.op = "next" /\ last.kind = "StopIteration" /\ last.cause = "stream"
     /\ yielded # <<>>
     /\ CountsPresent(Val(w)))
    => Len(tasks) = 1

\* C7: a failure of usage synthesis or submission while a stream is being
\* finalized is only logged: __next__ ends with the underlying signal
\* (a chunk, StopIteration or the SDK's exception) and close() returns.
C7_ReportingFailureOnlyLogged ==
    /\ last.op = "next" => last.exc \in {"none", "StopIteration", "SDKError"}
    /\ last.op = "close" => last.exc = "none"

(***************************************************************************)
(* Properties of the intercepted calls and of the reporter.                *)
(***************************************************************************)
\* C4: when the original SDK method of a non-streamed call returns a
\* response, the wrapper returns that response and raises nothing.
C4_ResponseAlwaysReturned ==
    (/\ phase = "called"
     /\ entry \in NonStreamEntries
     /\ ~sdk.raises
     /\ ~sdk.response.is_none)
    => /\ call_result.exc = "none"
       /\ call_result.value = Some(sdk.response)

\* the logical call is over: the non-streamed call returned or raised, or
\* the stream of the streamed call has ended
LogicalCallOver == phase = "called" /\ (IsNone(w) \/ Ended)

\* C5: every logical call, also one that fails, has produced exactly one
\* usage record once it is over.
C5_ExactlyOneRecordPerCall == LogicalCallOver => Len(tasks) = 1

\* C9: reporting is fire-and-forget: a step of the caller (the intercepted
\* call, __next__, close) hands each coroutine to a reporter thread and
\* returns while it is still pending, and never advances or waits for a
\* coroutine dispatched earlier.
C9_FireAndForget ==
    [][(Call \/ Next_ \/ Close) =>
          /\ Len(tasks') >= Len(tasks)
          /\ \A i \in 1..Len(tasks) : tasks'[i] = tasks[i]
          /\ \A i \in (Len(tasks) + 1)..Len(tasks') :
                tasks'[i].status = "pending" /\ tasks'[i].thread = "worker"]_vars

\* C9 witness: the intercepted call has returned its response while
\* create_completion has not been started
C9_Witness ==
    /\ phase = "called" /\ entry \in NonStreamEntries
    /\ call_result.exc = "none"
    /\ Len(tasks) = 1 /\ tasks[1].status = "pending"

\* C10: a failure of create_completion stays in the reporter: it is never
\* the cause of an exception seen by the caller of the intercepted call or
\* by the consumer of the stream, and it is raised on a reporter thread.
C10_BackendFailureStaysInReporter ==
    /\ call_result.cause # BackendFailure
    /\ last.cause # BackendFailure
    /\ \A i \in 1..Len(tasks) :
          tasks[i].status \in {"failed", "failed_quiet"} => tasks[i].thread = "worker"

\* C10 witness: the backend rejected the submission of a call that returned
C10_Witness ==
    /\ phase = "called"
    /\ call_result.exc = "none"
    /\ \E i \in 1..Len(tasks) : tasks[i].status = "failed"

\* C11: when the shutdown event is set as a report starts, log_token_usage
\* skips the submission: it makes no call to create_completion and returns
\* without raising, and the skipped report is never taken up again.
C11_ShutdownSkipsSubmission ==
    [][\A i \in 1..Len(tasks) :
          /\ (shutdown /\ tasks[i].status = "pending" /\ tasks'[i] # tasks[i])
                => /\ tasks'[i].status = "skipped"
                   /\ create_completion_calls' = create_completion_calls
          /\ tasks[i].status = "skipped" => tasks'[i] = tasks[i]]_vars

\* C11 witness: a report that started during shutdown was skipped
C11_Witness ==
    /\ shutdown
    /\ \E i \in 1..Len(tasks) : tasks[i].status = "skipped"
    /\ create_completion_calls = 0

(***************************************************************************)
(* Metadata specification: one intercepted call whose caller supplies      *)
(* usage_metadata, as a keyword argument or on the SDK object, followed by *)
(* the report built from it.  The environment stays healthy.               *)
(***************************************************************************)
\* values a caller can put under a key: none, the empty string, a string
ValuesOf(v) == {Missing, "", v}

SubscriberDicts ==
    {MkSubscriber(id, email, FALSE, Missing, Missing) :
        id \in ValuesOf("u1"), email \in ValuesOf("e1")}
    \cup {MkSubscriber(id, email, TRUE, name, value) :
        id \in ValuesOf("u1"), email \in ValuesOf("e1"),
        name \in ValuesOf("n1"), value \in ValuesOf("v1")}

\* the flat keys carry values of their own, so that a mix-up would show
SubscriberMetas ==
    {MkMeta("t1", kind, IF kind = "dict" THEN d ELSE EmptyDict, sid, semail, scname, scvalue) :
        kind \in {"missing", "dict", "other"}, d \in SubscriberDicts,
        sid \in ValuesOf("u2"), semail \in ValuesOf("e2"),
        scname \in ValuesOf("n2"), scvalue \in ValuesOf("v2")}

SdkGood(e) ==
    [raises |-> FALSE,
     response |-> IF e \in StreamEntries THEN RespNone
                  ELSE IF e \in {"google_ai.embed_content", "vertex_ai.get_embeddings"}
                       THEN RespEmbedList ELSE RespChatGood,
     model_arg |-> IF e = "google_ai.generate_content_stream" THEN "None" ELSE "gemini-x",
     model_origin |-> "attribute", module_path |-> module_patterns[1]]

InitMeta ==
    /\ InitCommon
    /\ InitNoProbe
    /\ InitImported
    /\ entry \in NonStreamEntries \cup StreamEntries
    /\ sdk \in {SdkGood(entry), [SdkGood(entry) EXCEPT !.raises = TRUE, !.response = RespNone]}
    /\ stream \in IF entry \in StreamEntries /\ ~sdk.raises
                  THEN {MkStream(items, "stop") : items \in ScriptsOfLen(1)}
                  ELSE {MkStream(<<>>, "stop")}
    /\ \/ \* metadata as keyword argument, on the SDK object, or both
          /\ kwargs \in [usage_metadata : {None, Some(EmptyMeta), Some(TraceMeta("t1"))},
                         rest : SUBSET {"config"}]
          /\ instance \in IF entry \in {"vertex_ai.generate_content", "vertex_ai.get_embeddings",
                                        "vertex_ai.generate_content(stream)"}
                          THEN {None, Some(EmptyMeta), Some(TraceMeta("t2"))}
                          ELSE {None}
       \/ \* subscriber information in the metadata
          /\ entry = "google_ai.generate_content"
          /\ ~sdk.raises
          /\ kwargs \in [usage_metadata : {Some(m) : m \in SubscriberMetas}, rest : {{"config"}}]
          /\ instance = None

NextMeta ==
    \/ Call
    \/ Next_
    \/ Close
    \/ TaskBegin
    \/ TaskEnd

SpecMeta == InitMeta /\ [][NextMeta]_vars

\* C12: every wrapper removes usage_metadata before calling the original SDK
\* method: once the entry point has been called, the keyword arguments the
\* original method received hold no usage_metadata, and every other argument
\* of the caller reached it unchanged.
C12_UsageMetadataNeverForwarded ==
    phase = "called" =>
        /\ ~IsNone(forwarded)
        /\ IsNone(Val(forwarded).usage_metadata)
        /\ Val(forwarded).rest = kwargs.rest

\* the metadata that supplies the flat keys' values as a nested subscriber
NestedForm(um) ==
    [um EXCEPT !.subscriber_kind = "dict",
               !.subscriber = MkSubscriber(um.subscriber_id, um.subscriber_email,
                                           um.subscriber_credential_name # Missing
                                              \/ um.subscriber_credential # Missing,
                                           um.subscriber_credential_name,
                                           um.subscriber_credential),
               !.subscriber_id = Missing, !.subscriber_email = Missing,
               !.subscriber_credential_name = Missing,
               !.subscriber_credential = Missing]

\* the report was built from metadata that holds flat subscriber keys only
ReportedFromFlatKeys == ~IsNone(completion_args) /\ captured.subscriber_kind = "missing"

SameSubscriberAsNested ==
    /\ Val(completion_args).has_subscriber
          = log_token_usage_args(NestedForm(captured)).has_subscriber
    /\ Val(completion_args).subscriber
          = log_token_usage_args(NestedForm(captured)).subscriber

\* C13 (as stated): metadata that supplies id, email, credential name and
\* credential value as flat keys yields the same payload subscriber as the
\* metadata that supplies them as a nested subscriber, for any values.
C13_FlatEqualsNestedForAnyValues ==
    ReportedFromFlatKeys => SameSubscriberAsNested

\* C13 (amended): the same equality, for flat keys whose supplied values are
\* all non-empty; any subset of the four keys may be supplied.
C13_FlatEqualsNestedForNonEmptyValues ==
    (/\ ReportedFromFlatKeys
     /\ "" \notin {captured.subscriber_id, captured.subscriber_email,
                   captured.subscriber_credential_name, captured.subscriber_credential})
        => SameSubscriberAsNested

C13_Witness ==
    /\ ReportedFromFlatKeys
    /\ captured.subscriber_id = "u2" /\ captured.subscriber_email = "e2"
    /\ captured.subscriber_credential_name = "n2" /\ captured.subscriber_credential = "v2"
    /\ Val(completion_args).has_subscriber
    /\ Val(completion_args).subscriber = MkSubscriber("u2", "e2", TRUE, "n2", "v2")

\* C14 as stated: when the metadata holds both a nested subscriber entry and
\* flat subscriber keys, the payload has a subscriber and it is exactly the
\* nested entry, no field carries a flat key's value, and no deprecation
\* warning is logged.
C14_SubscriberIsNestedEntry ==
    (/\ ~IsNone(completion_args)
     /\ captured.subscriber_kind # "missing"
     /\ {captured.subscriber_id, captured.subscriber_email,
         captured.subscriber_credential_name, captured.subscriber_credential} # {Missing})
        => /\ ~Val(completion_args).deprecation_warning
           /\ Val(completion_args).has_subscriber
           /\ captured.subscriber_kind = "dict"
           /\ Val(completion_args).subscriber = captured.subscriber
           /\ {Val(completion_args).subscriber.id, Val(completion_args).subscriber.email,
               Val(completion_args).subscriber.cred_name,
               Val(completion_args).subscriber.cred_value}
                 \cap {"u2", "e2", "n2", "v2"} = {}

\* C14, amended: when the metadata holds a nested subscriber entry, flat
\* subscriber keys contribute nothing: no field carries a flat key's value
\* and no deprecation warning is logged; a nested dictionary that is not
\* empty is the payload's subscriber as it is, and the payload has no
\* subscriber when the nested entry is an empty dictionary or not a
\* dictionary.
C14_NestedWins ==
    (~IsNone(completion_args) /\ captured.subscriber_kind # "missing") =>
        /\ ~Val(completion_args).deprecation_warning
        /\ captured.subscriber_kind = "dict"
              => /\ Val(completion_args).subscriber = captured.subscriber
                 /\ Val(completion_args).has_subscriber
                       = (captured.subscriber # EmptyDict)
        /\ captured.subscriber_kind = "other"
              => ~Val(completion_args).has_subscriber
        /\ {Val(completion_args).subscriber.id, Val(completion_args).subscriber.email,
            Val(completion_args).subscriber.cred_name,
            Val(completion_args).subscriber.cred_value}
              \cap {"u2", "e2", "n2", "v2"} = {}

C14_Witness ==
    /\ ~IsNone(completion_args)
    /\ captured.subscriber_kind = "dict"
    /\ captured.subscriber = MkSubscriber(Missing, "e1", FALSE, Missing, Missing)
    /\ captured.subscriber_id = "u2"
    /\ captured.subscriber_credential = "v2"
    /\ Val(completion_args).has_subscriber
    /\ Val(completion_args).subscriber = captured.subscriber

\* C15: the arguments of create_completion never hold an empty subscriber:
\* either they have no subscriber key, or the subscriber has at least one
\* field; with no subscriber entry and no flat subscriber key in the
\* metadata, the key is absent.
C15_NoEmptySubscriber ==
    ~IsNone(completion_args) =>
        /\ Val(completion_args).has_subscriber
              => \/ Val(completion_args).subscriber.id # Missing
                 \/ Val(completion_args).subscriber.email # Missing
                 \/ Val(completion_args).subscriber.has_credential
        /\ (/\ captured.subscriber_kind = "missing"
            /\ {captured.subscriber_id, captured.subscriber_email,
                captured.subscriber_credential_name,
                captured.subscriber_credential} = {Missing})
              => ~Val(completion_args).has_subscriber

C15_Witness ==
    /\ ~IsNone(completion_args)
    /\ ~Val(completion_args).has_subscriber
    /\ captured.trace_id = "t1"
    /\ captured.subscriber_kind = "dict"
    /\ captured.subscriber = EmptyDict
    /\ captured.subscriber_email = "e2"

\* C16: the retained chunks never number more than max_chunks, and while
\* the wrapper is open, after n chunks have passed through it, it retains the
\* first min(n, max_chunks) of them in order, while all n chunks went to the
\* consumer in the order of the underlying stream.
C16_RetentionCapped ==
    HasWrapper =>
        /\ Len(Val(w).chunks) <= max_chunks
        /\ ~Val(w).closed =>
              /\ Len(Val(w).chunks) = IF Len(yielded) < max_chunks
                                      THEN Len(yielded) ELSE max_chunks
              /\ \A i \in 1..Len(Val(w).chunks) : Val(w).chunks[i] = yielded[i]
              /\ \A i \in 1..Len(yielded) : yielded[i] = stream.items[i]

\* C16 witness: an open wrapper that forwarded a chunk beyond the cap
C16_Witness ==
    /\ HasWrapper
    /\ ~Val(w).closed
    /\ last.op = "next" /\ last.kind = "chunk"
    /\ Len(yielded) = max_chunks + 1
    /\ Val(w).chunks = SubSeq(yielded, 1, max_chunks)
    /\ yielded = SubSeq(stream.items, 1, max_chunks + 1)

(***************************************************************************)
(* Import specification: `import revenium_middleware_google` under every   *)
(* installation of the two vendor SDKs.                                    *)
(***************************************************************************)
\* the Google AI SDK: the package, its models module, the attributes of Models
GoogleInstallations ==
    {g \in [google_genai : BOOLEAN, google_models : BOOLEAN,
            models_attrs : SUBSET {GoogleTargets[i] : i \in 1..Len(GoogleTargets)}] :
        /\ g.google_models => g.google_genai
        /\ g.models_attrs # {} => g.google_models}

\* the Vertex AI SDK: the package, its language_models module and
\* TextEmbeddingModel.get_embeddings
VertexInstallations ==
    {v \in [vertexai : BOOLEAN, language_models : BOOLEAN, get_embeddings : BOOLEAN] :
        /\ v.language_models => v.vertexai
        /\ v.get_embeddings => v.language_models}

\* what each module path of module_patterns holds: at most MaxPresentPaths
\* of the modules exist, each without the class, with a class without the
\* method, or with GenerativeModel.generate_content
GenerativeLayouts ==
    LET paths == {module_patterns[i] : i \in 1..Len(module_patterns)}
        present == {P \in SUBSET paths : Cardinality(P) <= MaxPresentPaths}
    IN  {[m \in paths |-> IF m \in DOMAIN f THEN f[m] ELSE "absent"] :
            f \in UNION {[P -> {"no_class", "no_method", "ok"}] : P \in present}}

\* same_class: the module paths that expose one and the same GenerativeModel
\* class; every other path has a class of its own
GenerativeInstallations ==
    UNION {{[generative |-> g, same_class |-> S] :
               S \in {T \in SUBSET {m \in DOMAIN g : g[m] = "ok"} : Cardinality(T) # 1}} :
           g \in GenerativeLayouts}

Installations ==
    {inst \in {g @@ v @@ c : g \in GoogleInstallations, v \in VertexInstallations,
                             c \in GenerativeInstallations} :
        \A m \in DOMAIN inst.generative : inst.generative[m] # "absent" => inst.vertexai}

InitImport ==
    /\ InitCommon
    /\ InitNoProbe
    /\ InitPlainCall
    /\ entry = "google_ai.generate_content"
    /\ sdk = SdkGood(entry)
    /\ stream = MkStream(<<>>, "stop")
    /\ installed \in Installations
    /\ importing = [pc |-> "google_ai", exc |-> "none", patched |-> {}]

\* __init__.py, the first try block: the Google AI SDK
ImportGoogleAI ==
    /\ importing.pc = "google_ai"
    /\ importing' = import_block(importing, installed.google_genai,
                                 google_ai_decorators(installed, 1, {}), "vertex_ai")
    /\ UNCHANGED <<heap, extractState, installed, metaIn, metaOut, entry, sdk, phase, call_result, w, stream,
                   yielded, last, tasks, shutdown, backend_up, spawn_ok, nops, pcA, regA, pcB, regB>>

\* __init__.py, the second try block and the rest of the module: Vertex AI
ImportVertexAI ==
    /\ importing.pc = "vertex_ai"
    /\ importing' = import_block(importing, installed.vertexai,
                                 import_vertex_ai_middleware(installed), "done")
    /\ UNCHANGED <<heap, extractState, installed, metaIn, metaOut, entry, sdk, phase, call_result, w, stream,
                   yielded, last, tasks, shutdown, backend_up, spawn_ok, nops, pcA, regA, pcB, regB>>

NextImport ==
    \/ ImportGoogleAI
    \/ ImportVertexAI

SpecImport == InitImport /\ [][NextImport]_vars

\* C17: a patching failure caused by an absent module or attribute is
\* caught: the import of the package completes, and the entry points of a
\* vendor SDK that is fully installed are patched whatever is missing from
\* the other SDK.
C17_PatchFailureContained ==
    importing.pc \in {"done", "failed"} =>
        /\ importing.pc = "done"
        /\ (installed.google_models
              /\ installed.models_attrs = {GoogleTargets[i] : i \in 1..Len(GoogleTargets)})
              => installed.models_attrs \subseteq importing.patched
        /\ installed.get_embeddings
              => ({"TextEmbeddingModel.get_embeddings"}
                  \cup {m \in DOMAIN installed.generative : installed.generative[m] = "ok"})
                     \subseteq importing.patched

(***************************************************************************)
(* Reclaim specification: the consumer of a stream may also drop the       *)
(* wrapper, which the interpreter then reclaims.                           *)
(***************************************************************************)
InitReclaim ==
    /\ Init
    /\ entry \in StreamEntries
    /\ ~sdk.raises

\* The last reference to the wrapper goes away.  The wrapper classes define
\* no __del__, so none of their code runs; the interpreter closes the
\* underlying generator unless it has completed.
Reclaim ==
    /\ phase = "called"
    /\ ~IsNone(w)
    /\ phase' = "reclaimed"
    /\ stream' = IF stream.finished THEN stream ELSE gen_close(stream)
    /\ last' = [op |-> "reclaim", kind |-> "return", exc |-> "none", cause |-> "none",
                chunk |-> None]
    /\ UNCHANGED <<heap, extractState, pkgState, metaIn, metaOut, entry, sdk, call_result, w, yielded, tasks,
                   shutdown, backend_up, spawn_ok, nops, pcA, regA, pcB, regB>>

NextReclaim ==
    \/ Call
    \/ Next_
    \/ Close
    \/ Reclaim
    \/ TaskBegin
    \/ TaskEnd

SpecReclaim == InitReclaim /\ [][NextReclaim]_vars

\* C18: for a wrapper that has yielded at least one chunk and whose consumer
\* stopped before the end of the stream, reclaiming the wrapper or closing it
\* leads to its usage being reported: once either has happened, a metering
\* call has been dispatched.
C18_ReclaimOrCloseReports ==
    (/\ ~IsNone(w)
     /\ yielded # <<>>
     /\ Len(yielded) < Len(stream.items)
     /\ CountsPresent(Val(w))
     /\ last.op \in {"close", "reclaim"})
        => tasks # <<>>

(***************************************************************************)
(* Extraction specification: the three extraction paths applied to one     *)
(* response, for either operation type.                                    *)
(***************************************************************************)
ProbeUsages ==
    [prompt_token_count : {Absent, NoneV, 0, 10},
     candidates_token_count : {Absent, NoneV, 0, 15},
     total_token_count : {Absent, NoneV, 0, 5, 25, 40},
     cached_content_token_count : {Absent, 0}]

ProbeResponses ==
    {MkResponse(FALSE, FALSE, "gemini-x", "None", Some(u), "STOP", Absent) : u \in ProbeUsages}
    \cup {RespChatNoUsage, RespEmbedList, RespNone}

FinishValues ==
    {FinishValue("str", t) : t \in {"STOP", "MAX_TOKENS", "SAFETY", "RECITATION", "OTHER",
                                     "FINISH_REASON_UNSPECIFIED", "", "stop", "BLOCKLIST"}}
    \cup {FinishValue("None", ""), FinishValue("hashable", "7"), FinishValue("unhashable", "[]")}

VertexProbeResponses ==
    {[RespChatGood EXCEPT !.model_version = n] : n \in DOMAIN PathNames}
    \cup {RespChatRaw, RespChatListFinish, RespChatEnumFinish, RespChatNoUsage, RespEmbedList}

MaxSegments == 4

Segments == {"publishers", "google", "models", "projects", "gemini-x"}

RECURSIVE PathsOfLen(_)
PathsOfLen(n) ==
    IF n = 0 THEN {<<>>} ELSE {Append(p, x) : p \in PathsOfLen(n - 1), x \in Segments}

\* resolved names: every path of up to MaxSegments segments and two
\* resource paths of a project
ModelPaths ==
    UNION {PathsOfLen(n) : n \in 1..MaxSegments}
    \cup {<<"projects", "my-project", "locations", "us-central1", "models", "gemini-x">>,
          <<"projects", "my-project", "locations", "us-central1", "publishers", "google",
            "models", "gemini-x">>}

InitExtract ==
    /\ InitCommon
    /\ InitImported
    /\ InitPlainCall
    /\ entry = "google_ai.generate_content"
    /\ sdk = SdkGood(entry)
    /\ stream = MkStream(<<>>, "stop")
    /\ \/ \* token counts of every shape
          probe \in [response : ProbeResponses, operation_type : {"CHAT", "EMBED"},
                     finish_reason : {FinishValue("str", "STOP")},
                     sdk_type : {"google_ai_sdk"}, model_name_fallback : {"None"},
                     resolved_name : {<<"gemini-x">>}]
       \/ \* finish reasons, providers and fallback names of every shape
          probe \in [response : {RespChatGood, RespChatNoUsage, RespNone},
                     operation_type : {"CHAT"},
                     finish_reason : FinishValues,
                     sdk_type : {"google_ai_sdk", "vertex_ai_sdk", "other"},
                     model_name_fallback : {"None", "", "gemini-x"},
                     resolved_name : {<<"gemini-x">>}]
       \/ \* resolved model names of every shape
          probe \in [response : {RespChatGood}, operation_type : {"CHAT"},
                     finish_reason : {FinishValue("str", "STOP")},
                     sdk_type : {"vertex_ai_sdk"}, model_name_fallback : {"None"},
                     resolved_name : ModelPaths]
       \/ \* Vertex AI responses: names with a path, a _raw_response, finish
          \* reasons that are not strings
          probe \in [response : VertexProbeResponses, operation_type : {"CHAT", "EMBED"},
                     finish_reason : {FinishValue("str", "STOP")},
                     sdk_type : {"vertex_ai_sdk"},
                     model_name_fallback : {"None"} \cup DOMAIN PathNames,
                     resolved_name : {<<"gemini-x">>}]
    /\ extracted = None

\* the vertex_ai token extractor for the operation type
extract_vertex_ai_tokens(response, operation_type) ==
    IF operation_type = "EMBED"
    THEN Returned(extract_vertex_ai_embedding_tokens(response))
    ELSE extract_vertex_ai_generation_tokens(response)

\* Each extraction path is applied to the probe.
Extract ==
    /\ IsNone(extracted)
    /\ extracted' = Some(
          [common |-> extract_token_counts(probe.response, probe.operation_type),
           google_ai |-> extract_google_ai_usage_data(probe.response, probe.operation_type,
                                                      probe.model_name_fallback),
           vertex_ai |-> extract_vertex_ai_tokens(probe.response, probe.operation_type),
           vertex_ai_usage |-> extract_vertex_ai_usage_data(probe.response,
                                   probe.operation_type, probe.model_name_fallback),
           model_name |-> extract_model_name(probe.response, probe.model_name_fallback),
           stop_reason |-> normalize_stop_reason_any(probe.finish_reason, probe.sdk_type),
           cleaned |-> clean_model_name(probe.resolved_name)])
    /\ UNCHANGED <<heap, probe, pkgState, metaIn, metaOut, entry, sdk, phase, call_result, w, stream,
                   yielded, last, tasks, shutdown, backend_up, spawn_ok, nops, pcA, regA, pcB, regB>>

NextExtract == Extract

SpecExtract == InitExtract /\ [][NextExtract]_vars

\* the probe is a chat response whose usage metadata carries an input and
\* an output count, and whose total, when it carries one, is not below them
ChatProbeWithCounts ==
    /\ probe.operation_type = "CHAT"
    /\ ~IsNone(probe.response.usage_metadata)
    /\ Val(probe.response.usage_metadata).prompt_token_count >= 0
    /\ Val(probe.response.usage_metadata).candidates_token_count >= 0
    /\ \/ Val(probe.response.usage_metadata).total_token_count \in {Absent, NoneV}
       \/ /\ Val(probe.response.usage_metadata).total_token_count
                >= Val(probe.response.usage_metadata).prompt_token_count
          /\ Val(probe.response.usage_metadata).total_token_count
                >= Val(probe.response.usage_metadata).candidates_token_count

\* total >= I, total >= O, and total = I + O without an explicit total
TotalCovers(total) ==
    /\ total >= Val(probe.response.usage_metadata).prompt_token_count
    /\ total >= Val(probe.response.usage_metadata).candidates_token_count
    /\ Val(probe.response.usage_metadata).total_token_count \in {Absent, NoneV}
          => total = Val(probe.response.usage_metadata).prompt_token_count
                     + Val(probe.response.usage_metadata).candidates_token_count

\* C19: for a chat response whose usage metadata carries input count I and
\* output count O, each extraction path (common, Google AI, Vertex AI)
\* yields a record with total >= I and total >= O, and total = I + O when
\* the response carries no explicit total.
C19_TotalCoversCounts ==
    (ChatProbeWithCounts /\ ~IsNone(extracted)) =>
        /\ Val(extracted).common.exc = "none"
        /\ TotalCovers(Val(Val(extracted).common.value).total_tokens)
        /\ Val(extracted).google_ai.exc = "none"
        /\ TotalCovers(Val(Val(extracted).google_ai.value).total_token_count)
        /\ Val(extracted).vertex_ai.exc = "none"
        /\ TotalCovers(Val(Val(extracted).vertex_ai.value).total_tokens)

\* C20: for an EMBED operation, every extraction path that produces a record
\* produces output count 0, whatever the response holds.
C20_EmbedOutputIsZero ==
    (probe.operation_type = "EMBED" /\ ~IsNone(extracted)) =>
        /\ Val(extracted).common.exc = "none"
              => Val(Val(extracted).common.value).output_tokens = 0
        /\ Val(extracted).google_ai.exc = "none"
              => Val(Val(extracted).google_ai.value).output_token_count = 0
        /\ Val(extracted).vertex_ai.exc = "none"
              => Val(Val(extracted).vertex_ai.value).output_tokens = 0

\* C20 witness: an EMBED response that exposes a positive candidates count
C20_Witness ==
    /\ probe.operation_type = "EMBED"
    /\ ~IsNone(probe.response.usage_metadata)
    /\ Val(probe.response.usage_metadata).candidates_token_count = 15
    /\ Val(probe.response.usage_metadata).prompt_token_count = 10
    /\ Val(probe.response.usage_metadata).total_token_count = 25
    /\ ~IsNone(extracted)
    /\ Val(extracted).common.exc = "none"
    /\ Val(Val(extracted).common.value).output_tokens = 0
    /\ Val(Val(extracted).common.value).input_tokens = 10
    /\ Val(extracted).google_ai.exc = "none"
    /\ Val(extracted).vertex_ai.exc = "none"

\* C21: normalize_stop_reason is total: for every finish reason (known
\* codes, other strings, the empty string, None, values that are not strings)
\* and every provider it returns one of END, END_SEQUENCE, TIMEOUT,
\* TOKEN_LIMIT, ERROR, and END for None and for a code absent from the
\* provider's table.
C21_StopReasonTotal ==
    ~IsNone(extracted) =>
        /\ Val(extracted).stop_reason.exc = "none"
        /\ Val(Val(extracted).stop_reason.value)
              \in {"END", "END_SEQUENCE", "TIMEOUT", "TOKEN_LIMIT", "ERROR"}
        /\ (\/ probe.finish_reason.kind # "str"
            \/ probe.sdk_type = "other"
            \/ probe.finish_reason.text
                  \notin DOMAIN (IF probe.sdk_type = "google_ai_sdk"
                                 THEN GOOGLE_AI_STOP_REASONS ELSE VERTEX_AI_STOP_REASONS))
              => Val(Val(extracted).stop_reason.value) = "END"

\* C22: extraction is total: for every response (None, an object with none
\* of the probed attributes, a usage object whose counts are None)
\* extract_token_counts and extract_model_name return a value and never
\* raise.
C22_ExtractionTotal ==
    ~IsNone(extracted) =>
        /\ Val(extracted).common.exc = "none"
        /\ Val(extracted).model_name.exc = "none"

\* C24: once exhaustion, close() or an error of the underlying iteration has
\* been processed on a stream wrapper, no later operation on that wrapper
\* dispatches a metering call, whatever the first trigger's reporting
\* attempt did.
C24_LaterTriggersAreNoOps ==
    [][Ended => Len(tasks') = Len(tasks)]_vars

(***************************************************************************)
(* Long-stream specification: a streamed call whose generator yields up to *)
(* two chunks more than the wrapper retains.                               *)
(***************************************************************************)
LongStream == max_chunks + 2

RECURSIVE LongScriptsOfLen(_)
LongScriptsOfLen(n) ==
    IF n = 0 THEN {<<>>}
    ELSE {Append(p, MkChunk(n, k)) : p \in LongScriptsOfLen(n - 1),
                                     k \in IF n = LongStream THEN {"plain", "final"} ELSE {"plain"}}

LongScripts == UNION {LongScriptsOfLen(n) : n \in 0..LongStream}

InitLong ==
    /\ InitCommon
    /\ InitNoProbe
    /\ InitImported
    /\ InitPlainCall
    /\ entry \in StreamEntries
    /\ sdk \in [raises : {FALSE}, response : {RespNone}, model_arg : ModelArgs,
                 model_origin : {"attribute"},
                       module_path : {module_patterns[1]}]
    /\ entry = "google_ai.generate_content_stream" => sdk.model_arg = "None"
    /\ stream \in {MkStream(items, e) : items \in LongScripts, e \in {"stop", "raise"}}

NextLong ==
    \/ Call
    \/ Next_
    \/ Close

SpecLong == InitLong /\ [][NextLong]_vars

\* C25: the retention-cap warning is logged a single time per stream: once
\* a wrapper has forwarded more than max_chunks chunks it has logged exactly
\* one cap warning.
C25_OneCapWarning ==
    (~IsNone(w) /\ Len(yielded) > max_chunks) => Val(w).cap_warnings = 1

\* C27: for a wrapper that has yielded a chunk, the call that processes the
\* first of exhaustion, underlying error or close() leaves exactly one
\* metering call dispatched when nothing in the reporting path raises (the
\* accumulated counts are present and a reporter thread can be started),
\* and no later __next__ or close() dispatches another one.
C27_OneDispatchPerYieldingStream ==
    /\ [][(HasWrapper /\ ~Ended /\ Ended' /\ yielded # <<>>
             /\ CountsPresent(Val(w)) /\ spawn_ok)
          => (tasks = <<>> /\ Len(tasks') = 1)]_vars
    /\ [][(Ended /\ yielded # <<>> /\ Len(tasks) = 1 /\ (Next_ \/ Close))
          => tasks' = tasks]_vars

\* C27 witness: the generator raised after a chunk, the failing __next__
\* dispatched the one metering call, and a later __next__ and a close()
\* followed
C27_Witness ==
    /\ HasWrapper
    /\ stream.ending = "raise" /\ stream.finished
    /\ yielded # <<>>
    /\ Val(w).usage_logged /\ Val(w).closed
    /\ last.op = "close"
    /\ nops >= Len(yielded) + 3
    /\ Len(tasks) = 1

\* C28: a wrapper whose stream is exhausted, fails or is closed before any
\* chunk was yielded has dispatched no metering call, and no later
\* operation on it yields a chunk or dispatches one.
C28_EmptyStreamNeverReports ==
    /\ []((Ended /\ yielded = <<>>) => tasks = <<>>)
    /\ [][(Ended /\ yielded = <<>>) => (yielded' = <<>> /\ tasks' = <<>>)]_vars

\* C28 witness: closed before the first chunk of a stream that had chunks,
\* then __next__ and close() again, nothing dispatched
C28_Witness ==
    /\ HasWrapper
    /\ Val(w).closed
    /\ yielded = <<>> /\ stream.items # <<>>
    /\ last.op = "close"
    /\ nops >= 3
    /\ tasks = <<>>

\* C29: after close() has returned, every __next__ signals exhaustion
\* without advancing the underlying iterator and without yielding a chunk,
\* and the underlying iterator's close() is invoked at most once by the
\* wrapper.
C29_ClosedWrapperStaysClosed ==
    /\ [][(HasWrapper /\ Val(w).closed /\ Next_)
          => /\ stream' = stream
             /\ yielded' = yielded
             /\ last'.kind = "StopIteration"]_vars
    /\ [](HasWrapper => stream.closes <= 1)

\* C29 witness: closed in the middle of the stream, then __next__ on the
\* closed wrapper, the generator closed once and not advanced
C29_Witness ==
    /\ HasWrapper
    /\ Val(w).closed
    /\ stream.closes = 1
    /\ yielded # <<>> /\ stream.pos = Len(yielded) /\ stream.pos < Len(stream.items)
    /\ last.op = "next" /\ last.kind = "StopIteration" /\ last.cause = "closed"
    /\ nops >= Len(yielded) + 3

\* the name starts with one of the known path-style prefixes:
\* "publishers/google/models/", "models/", "google/models/", or it is a
\* "projects/.../models/" resource path
HasKnownPrefix(name) ==
    \/ startswith(name, <<"publishers", "google", "models">>)
    \/ startswith(name, <<"models">>)
    \/ startswith(name, <<"google", "models">>)
    \/ /\ startswith(name, <<"projects">>)
       /\ \E i \in 2..(Len(name) - 1) : name[i] = "models"

\* C26: the model-name cleanup turns a resolved name that starts with a
\* known path-style prefix into its last path segment, which contains no
\* "/", and returns a name with no known prefix unchanged, so that cleaning
\* a cleaned name changes nothing.
C26_CleanupKeepsLastSegment ==
    ~IsNone(extracted) =>
        /\ HasKnownPrefix(probe.resolved_name) =>
              Val(extracted).cleaned = <<probe.resolved_name[Len(probe.resolved_name)]>>
        /\ ~HasKnownPrefix(probe.resolved_name) =>
              Val(extracted).cleaned = probe.resolved_name
        /\ clean_model_name(Val(extracted).cleaned) = Val(extracted).cleaned
        /\ (/\ probe.response.model_version \in DOMAIN PathNames
            /\ probe.response.raw_model_version = "None"
            /\ Val(extracted).vertex_ai_usage.exc = "none")
              => LET segments == split(probe.response.model_version)
                 IN  Val(Val(extracted).vertex_ai_usage.value).model
                        = segments[Len(segments)]

(***************************************************************************)
(* Patched-call specification: the package is imported over an             *)
(* installation of the Vertex AI SDK, then GenerativeModel.generate_content *)
(* is called once on the class of one module path.                        *)
(***************************************************************************)
\* the model names an instance can carry: none, a plain name, resource paths
InstanceModelNames == ModelArgs \cup DOMAIN PathNames

\* installations with the Google AI SDK and the Vertex AI embeddings class
\* complete
PatchedInstallations ==
    {inst \in Installations :
        /\ inst.models_attrs = {GoogleTargets[i] : i \in 1..Len(GoogleTargets)}
        /\ inst.get_embeddings}

\* sdk.module_path is the module the caller takes GenerativeModel from.
\* Either the installation and the module path vary and the instance has
\* the plain model name, or the instance's name, its origin and the
\* response vary and the installation has the first two paths at most.
InitPatchedCall ==
    /\ InitCommon
    /\ InitNoProbe
    /\ instance = None
    /\ kwargs \in [usage_metadata : {None, Some(TraceMeta("t1"))}, rest : {{"config"}}]
    /\ importing = [pc |-> "google_ai", exc |-> "none", patched |-> {}]
    /\ \/ /\ installed \in PatchedInstallations
          /\ \/ /\ entry = "vertex_ai.generate_content"
                /\ sdk \in [raises : BOOLEAN, response : {RespNone, RespChatGood},
                             model_arg : {"gemini-x"}, model_origin : {"attribute"},
                             module_path : DOMAIN installed.generative]
                /\ sdk.raises => sdk.response = RespNone
                /\ stream = MkStream(<<>>, "stop")
             \/ /\ entry = "vertex_ai.generate_content(stream)"
                /\ sdk \in [raises : {FALSE}, response : {RespNone},
                             model_arg : {"gemini-x"}, model_origin : {"attribute"},
                             module_path : DOMAIN installed.generative]
                /\ stream \in {MkStream(<<>>, "stop"), MkStream(<<MkChunk(1, "final")>>, "stop")}
       \/ /\ installed \in {inst \in PatchedInstallations :
                                \A m \in DOMAIN inst.generative :
                                   inst.generative[m] # "absent"
                                      => m \in {module_patterns[1], module_patterns[2]}}
          /\ \/ /\ entry = "vertex_ai.generate_content"
                /\ sdk \in [raises : BOOLEAN,
                             response : Responses \cup {RespChatRaw, RespChatListFinish},
                             model_arg : InstanceModelNames, model_origin : ModelOrigins,
                             module_path : {module_patterns[1]}]
                /\ sdk.raises => sdk.response = RespNone
                /\ stream = MkStream(<<>>, "stop")
             \/ /\ entry = "vertex_ai.generate_content(stream)"
                /\ sdk \in [raises : BOOLEAN, response : {RespNone},
                             model_arg : InstanceModelNames, model_origin : ModelOrigins,
                             module_path : {module_patterns[1]}]
                /\ stream \in {MkStream(items, e) : items \in {<<>>} \cup ScriptsOfLen(1),
                                                     e \in {"stop", "raise"}}
                /\ sdk.raises => stream = MkStream(<<>>, "stop")
          /\ sdk.model_arg = "None" => sdk.model_origin = "attribute"

\* The caller invokes generate_content of the GenerativeModel class of
\* sdk.module_path after the import has completed; without that class or
\* method there is no call.
CallImported ==
    /\ importing.pc = "done"
    /\ installed.generative[sdk.module_path] = "ok"
    /\ Call

NextPatchedCall ==
    \/ ImportGoogleAI
    \/ ImportVertexAI
    \/ CallImported
    \/ Next_
    \/ Close
    \/ TaskBegin
    \/ TaskEnd

SpecPatchedCall == InitPatchedCall /\ [][NextPatchedCall]_vars

\* C30: one call of a Vertex AI generate_content entry point dispatches at
\* most one usage report, whichever of the module paths resolve and also
\* when they expose the same GenerativeModel class.
C30_OneReportPerVertexCall ==
    (phase = "called" /\ entry \in VertexGenerateEntries) => Len(tasks) <= 1

(***************************************************************************)
(* Two-call specification: two streamed calls are in progress at once.     *)
(* Every call of handle_streaming_response (Google AI) or                  *)
(* handle_vertex_ai_streaming_response (Vertex AI) runs in a frame of its  *)
(* own, whose variable usage_metadata the methods of the wrapper class     *)
(* close over, and creates one wrapper object.  __init__ binds the         *)
(* attributes of that object; it binds chunks to a new list object, which  *)
(* _process_chunk (append) and close() (clear) change in place.  heap      *)
(* holds the frames, the wrapper objects, the list objects and the SDK's   *)
(* generators of both calls; a method reads and writes its wrapper through *)
(* the references of self.                                                 *)
(***************************************************************************)
\* variant: the list object is made once and every wrapper is bound to it
new_list_once(lists) == 1

\* []: the address of a new list object
new_list(lists) == Len(lists) + 1

\* the list objects after the list at address a has been bound as an empty
\* list
bind_empty_list(lists, a) ==
    [j \in 1..(IF a > Len(lists) THEN a ELSE Len(lists)) |-> IF j = a THEN <<>> ELSE lists[j]]

\* handle_streaming_response / handle_vertex_ai_streaming_response called
\* as call i for the SDK's generator: the frame with usage_metadata, and
\* StreamWrapper(stream) with
\* the attributes of __init__; the object's chunks is the address of its
\* list and call_usage_metadata the frame its methods close over
handle_streaming_response(h, i, kind, generator, usage_metadata, model_name_fallback) ==
    LET a == new_list(h.lists)
    IN  [h EXCEPT
           !.frames[i] = Some([usage_metadata |-> usage_metadata]),
           !.objects[i] = Some([StreamWrapper(kind, model_name_fallback, usage_metadata, None)
                                   EXCEPT !.chunks = a, !.call_usage_metadata = i]),
           !.lists = bind_empty_list(@, a),
           !.generators[i] = generator]

\* the wrapper of call i as its methods see it through self: the attributes
\* of the object, the list that self.chunks refers to, and usage_metadata of
\* the enclosing frame
Load(h, i) ==
    [Val(h.objects[i]) EXCEPT !.chunks = h.lists[@],
                              !.call_usage_metadata = Val(h.frames[@]).usage_metadata]

\* the heap after a method of the wrapper of call i has left it as self:
\* assignments to self.<name> change the object, append and clear change
\* the list that self.chunks refers to
Store(h, i, self) ==
    [h EXCEPT !.objects[i] = Some([self EXCEPT
                                      !.chunks = Val(h.objects[i]).chunks,
                                      !.call_usage_metadata =
                                          Val(h.objects[i]).call_usage_metadata]),
              !.lists[Val(h.objects[i]).chunks] = self.chunks]

TwoScripts ==
    {<<>>,
     <<MkChunk(1, "final")>>,
     <<MkChunk(1, "plain"), MkChunk(2, "final")>>,
     <<MkChunk(1, "final"), MkChunk(2, "plain"), MkChunk(3, "final_none_count")>>}

TwoStreams == {MkStream(items, e) : items \in TwoScripts, e \in {"stop", "raise"}}

KindOf(e) == IF e = "google_ai.generate_content_stream" THEN "google_ai" ELSE "vertex_ai"

\* the trace_id that the caller of call i passes in usage_metadata
CallTrace(i) == IF i = 1 THEN "t1" ELSE "t2"

TwoFrame ==
    <<extractState, pkgState, metaIn, metaOut, entry, sdk, phase, call_result, w, stream,
      yielded, last, tasks, shutdown, backend_up, spawn_ok, nops, pcA, regA, pcB, regB>>

InitTwo ==
    /\ InitCommon
    /\ InitNoProbe
    /\ InitImported
    /\ InitPlainCall
    /\ entry = "google_ai.generate_content_stream"
    /\ sdk = SdkGood(entry)
    /\ stream = MkStream(<<>>, "stop")

\* Caller i invokes a streamed entry point.
TwoCall(i) ==
    /\ IsNone(heap.objects[i])
    /\ \E e \in StreamEntries, s \in TwoStreams :
          \E c \in {capture_usage_metadata(e, None,
                                           [usage_metadata |-> Some(TraceMeta(CallTrace(i))),
                                            rest |-> {"config"}])} :
             heap' = handle_streaming_response(heap, i, KindOf(e), s, c.usage_metadata,
                                               SdkGood(e).model_arg)
    /\ UNCHANGED TwoFrame

\* Consumer i calls __next__ on its wrapper.
TwoNext(i) ==
    /\ ~IsNone(heap.objects[i])
    /\ heap.nops[i] < MaxOps
    /\ \E r \in {__next__(Load(heap, i), heap.generators[i], heap.nops[i] + 1)} :
          heap' = [Store(heap, i, r.w) EXCEPT
                      !.generators[i] = r.stream,
                      !.reports[i] = @ \o r.new,
                      !.yielded[i] = IF r.kind = "chunk" THEN Append(@, Val(r.chunk)) ELSE @,
                      !.nops[i] = @ + 1]
    /\ UNCHANGED TwoFrame

\* Consumer i calls close() on its wrapper.
TwoClose(i) ==
    /\ ~IsNone(heap.objects[i])
    /\ heap.nops[i] < MaxOps
    /\ \E r \in {close(Load(heap, i), heap.generators[i])} :
          heap' = [Store(heap, i, r.w) EXCEPT
                      !.generators[i] = r.stream,
                      !.reports[i] = @ \o r.new,
                      !.nops[i] = @ + 1]
    /\ UNCHANGED TwoFrame

NextTwo ==
    \E i \in CallIds :
       \/ TwoCall(i)
       \/ TwoNext(i)
       \/ TwoClose(i)

SpecTwo == InitTwo /\ [][NextTwo]_vars

\* the accumulator state of a wrapper that has received the chunks ys
RECURSIVE Accumulated(_, _, _)
Accumulated(self, ys, i) ==
    IF i > Len(ys) THEN self ELSE Accumulated(_process_chunk(self, ys[i], i), ys, i + 1)

\* the reports a call dispatches on its own for a stream that yielded ys
SoloReports(kind, model_arg, usage_metadata, ys) ==
    NewTasks(_log_usage(Accumulated(StreamWrapper(kind, model_arg, usage_metadata, None),
                                    ys, 1)))

\* what belongs to call i: its wrapper as its methods see it (retained
\* chunks, first-chunk time, model, finish reason, usage metadata, closed
\* and logged flags, the call's usage_metadata), its generator, the chunks
\* its consumer got and the reports its methods dispatched
CallState(h, i) ==
    [wrapper |-> IF IsNone(h.objects[i]) THEN None ELSE Some(Load(h, i)),
     generator |-> h.generators[i],
     yielded |-> h.yielded[i],
     reports |-> h.reports[i]]

\* C23: two streamed calls are independent: a step of one call (the call
\* itself, __next__, close()) leaves the other call's wrapper as its methods
\* see it, its generator, its yielded chunks and its reports unchanged, and
\* the reports of each call are the ones it dispatches on its own for the
\* chunks it yielded, with the usage_metadata of its own call.
C23_WrappersIndependent ==
    /\ [][\A i \in CallIds :
            (TwoCall(i) \/ TwoNext(i) \/ TwoClose(i))
               => \A j \in CallIds \ {i} : CallState(heap', j) = CallState(heap, j)]_vars
    /\ [](\A i \in CallIds :
            heap.reports[i] # <<>> =>
               /\ heap.reports[i]
                     = SoloReports(Load(heap, i).kind,
                                   IF Load(heap, i).kind = "google_ai" THEN "None"
                                   ELSE "gemini-x",
                                   TraceMeta(CallTrace(i)), heap.yielded[i])
               /\ \A k \in 1..Len(heap.reports[i]) :
                     heap.reports[i][k].usage_metadata = TraceMeta(CallTrace(i)))

\* C23 witness: both calls have reported, the first closed after one chunk
\* of three, the second exhausted after two chunks, their operations
\* interleaved
C23_Witness ==
    /\ ~IsNone(heap.objects[1]) /\ ~IsNone(heap.objects[2])
    /\ Load(heap, 1).closed /\ ~Load(heap, 2).closed
    /\ Len(heap.yielded[1]) = 1 /\ Len(heap.generators[1].items) = 3
    /\ Len(heap.yielded[2]) = 2 /\ heap.generators[2].finished
    /\ Len(heap.reports[1]) = 1 /\ Len(heap.reports[2]) = 1
    /\ Load(heap, 1).kind # Load(heap, 2).kind
    /\ Load(heap, 2).chunks # <<>>
    /\ heap.nops[1] + heap.nops[2] >= 5

====
